---------------------------- MODULE Spec2Model ----------------------------
(***************************************************************************)
(* Resilient dispatch engine of rinha-de-backend-2025.                     *)
(*                                                                         *)
(* The repository holds four hand-copied service variants:                 *)
(*   "orchestrator"  src/cmd/payment-orchestrator/main.go   lines   1-338  *)
(*   "gateway"       src/cmd/payment-orchestrator/main.go   lines 340-766  *)
(*   "gatewayBruto"  src/unnamed/part_003                   lines   1-430  *)
(*   "apiGateway"    src/unnamed/part_003                   lines 431-1020 *)
(* Every variant declares its own circuit breaker, connection pool and     *)
(* deduplication set.  The components are modelled one specification each: *)
(*   SpecBreaker     the circuit breaker at the level of its RWMutex       *)
(*   SpecBreakerSeq  the same breaker, calls not overlapping               *)
(*   SpecPool        BRUTOConnectionPool.GetConnection                     *)
(*   SpecHealth      checkPaymentProcessorHealth and its rate limit        *)
(*   Spec            POST /payments, two handlers at once                  *)
(*   SpecFair        Spec with every goroutine scheduled                   *)
(*   SpecTimed       one POST /payments against a clock                    *)
(*   SpecBruto       the gRPC gateway serving one request after another    *)
(*   SpecDown        the API gateway with a payment processor that fails    *)
(*   SpecProxy       the load balancer in front of two gateway processes   *)
(*   SpecResolver    CachingKeyResolver.ResolverFunc, src/unnamed/part_001 *)
(*   SpecSummary     the summary service and its cache                     *)
(*   SpecPaySum      GET /payments-summary of the gateways                 *)
(*   SpecPaySumFair  SpecPaySum with every goroutine scheduled             *)
(***************************************************************************)
EXTENDS Integers, Sequences, FiniteSets, TLC

(***************************************************************************)
(* Bounds of the model.                                                    *)
(***************************************************************************)
\* seconds the model clock advances per Tick
TickSeconds == 10
\* last instant of the model clock, in seconds
MaxTime == 40
\* recordFailure calls modelled beyond the threshold of a variant
ExtraFailures == 1

\* goroutines calling into the shared structures
NumGoroutines == 2
\* GetConnection calls made on one pool
MaxCalls == 5
\* seconds the model clock advances per HealthTick
HealthTickSeconds == 1
\* last instant of the model clock while health checks are made
HealthMaxTime == 8
\* checkPaymentProcessorHealth calls made in one run
MaxChecks == 3
\* the most all-zero strategies a variant starts for GET /payments-summary
MaxSummaryFallbacks == 2
\* requests the summary service answers in one run
MaxSummaries == 3
\* last second of the model clock of the summary service
SummaryMaxTime == 3
\* UpdateDefault and UpdateFallback calls made in one run
MaxUpdates == 2
\* ResolverFunc calls made in one run
MaxResolves == 3
\* last instant of the model clock while keys are resolved
ResolverMaxTime == 3

Threads == 1..NumGoroutines

(***************************************************************************)
(* Program constants.                                                      *)
(***************************************************************************)
\* lastFailure: time.Time{} -- the zero time, before every clock value
ZeroTime == -1
\* time.Since of the zero time saturates at the largest Duration (about 292
\* years); the model writes it as the largest integer TLC has
MaxDuration == 2147483647

BreakerVariants == {"orchestrator", "gatewayBruto", "apiGateway"}

\* "if cb.failures >= N" of recordFailure
Threshold(v) ==
    CASE v = "orchestrator" -> 10
      [] v = "gatewayBruto" -> 3
      [] v = "apiGateway"   -> 5

\* "time.Since(cb.lastFailure) > N*time.Second" of canExecute
Cooldown(v) ==
    CASE v = "orchestrator" -> 30
      [] v = "gatewayBruto" -> 10
      [] v = "apiGateway"   -> 30

VARIABLES
    variant,         \* which copy of the service is running
    now,             \* time.Now(), in seconds
    pc,              \* position of every goroutine inside the call it makes
    circuitBreaker,  \* [failures, lastFailure, state] of the CircuitBreaker
    mux,             \* circuitBreaker.mux: [readers, writer]
    ret,             \* value the current canExecute call is going to return
    seen,            \* what the current canExecute call read under its lock
    hist,            \* the recordSuccess / recordFailure calls made so far
    brutoConnectionPool, \* [connections, current, mu] of the BRUTOConnectionPool
    handed,          \* the handles GetConnection has returned, in order
    lastHealthCheck, \* lastHealthCheck[processor] of the one processor
    healthCheckMutex,\* the goroutine holding healthCheckMutex
    brutoCache,      \* brutoCache.data["health_<processor>"]
    checks,          \* the health checks made so far: [at, probed, answer]
    request,         \* per handler: the POST /payments body it was given
    resultChan,      \* per handler: the buffered resultChan
    strategy,        \* per handler: where each strategy goroutine stands
    response,        \* per handler: what it wrote to the ResponseWriter
    processedPayments, \* processedPayments.m: the keys recorded
    crashed,         \* a goroutine panicked: the process is gone
    clock,           \* milliseconds since the strategies were launched
    proxy,           \* the http.Handler the load balancer serves with
    currentBackend,  \* the int32 round-robin counter of the load balancer
    alive,           \* per backend: it accepts connections
    client,          \* per client of the load balancer: its request so far
    instanceKeys,    \* per backend: the processedPayments.m of that process
    picks,           \* the getNextBackend calls made so far: [old, next, index]
    keyResolver,     \* [cache, ttlManager, mu] of the CachingKeyResolver
    resolving,       \* per goroutine: the locals of its ResolverFunc call
    fetched,         \* the keySource calls made so far: [kid, at, ok, ttl]
    resolved,        \* the ResolverFunc calls that returned: [kid, at, key]
    brutoSummary,    \* summary service: the totals of the BRUTOSummary
    summaryCache,    \* summary service: brutoCache.data, with the instant of Set
    summarizing,     \* summary service: per goroutine, the locals of its handler
    served,          \* summary service: the answers written so far
    summaryChan,     \* per handler: the resultChan of GET /payments-summary
    summaryStrategy, \* per handler: where the summary strategies stand
    summaryResponse  \* per handler: the summary it wrote

common == <<variant, now, pc>>
cbVars == <<circuitBreaker, mux, ret, seen, hist>>
poolVars == <<brutoConnectionPool, handed>>
healthVars == <<lastHealthCheck, healthCheckMutex, brutoCache, checks>>
dispVars == <<request, resultChan, strategy, response, processedPayments,
              crashed, clock>>
proxyVars == <<proxy, currentBackend, alive, client, instanceKeys, picks>>
resolverVars == <<keyResolver, resolving, fetched, resolved>>
summaryVars == <<brutoSummary, summaryCache, summarizing, served>>
paySumVars == <<summaryChan, summaryStrategy, summaryResponse>>
restVars == <<resolverVars, summaryVars, paySumVars>>
vars == <<common, cbVars, poolVars, healthVars, dispVars, proxyVars, restVars>>

(***************************************************************************)
(* CircuitBreaker: the bodies of the three methods.                        *)
(***************************************************************************)
\* time.Since(t)
Since(t) == IF t = ZeroTime THEN MaxDuration ELSE now - t

\* the switch of canExecute, evaluated under the read lock:
\* "true" / "false" are returned at once, "halfOpen" takes the OPEN branch
\* whose cooldown has elapsed
canExecuteSwitch(v, cb) ==
    CASE cb.state = "CLOSED"    -> "true"
      [] cb.state = "OPEN"      ->
             IF Since(cb.lastFailure) > Cooldown(v) THEN "halfOpen" ELSE "false"
      [] cb.state = "HALF_OPEN" -> "true"

\* "cb.state = HALF_OPEN" of canExecute, under the write lock
canExecuteHalfOpen(cb) == [cb EXCEPT !.state = "HALF_OPEN"]

\* whether canExecute gives up its read lock before it asks for the write
\* lock (part_003:604) or asks for it while still reading (main.go:152)
ReleasesBeforeLock(v) == v = "apiGateway"

\* recordSuccess that forgets to close the breaker
recordSuccessKeepsState(cb) == [cb EXCEPT !.failures = 0]

recordSuccessBody(cb) == [cb EXCEPT !.failures = 0, !.state = "CLOSED"]

\* recordFailure that opens the breaker one failure late
recordFailureLate(v, cb) ==
    LET n == cb.failures + 1 IN
    [failures |-> n, lastFailure |-> now,
     state |-> IF n > Threshold(v) THEN "OPEN" ELSE cb.state]

recordFailureBody(v, cb) ==
    LET n == cb.failures + 1 IN
    IF v = "apiGateway"
    THEN \* part_003:625-633: the stamp is taken only when the breaker opens
         IF n >= Threshold(v)
         THEN [failures |-> n, lastFailure |-> now, state |-> "OPEN"]
         ELSE [cb EXCEPT !.failures = n]
    ELSE \* main.go:171-179, part_003:151-159: the stamp is taken every time
         [failures |-> n, lastFailure |-> now,
          state |-> IF n >= Threshold(v) THEN "OPEN" ELSE cb.state]

(***************************************************************************)
(* sync.RWMutex.  A goroutine that has called Lock keeps later RLock and   *)
(* Lock calls out (writer = it) and gets the lock when the readers that    *)
(* were in have left.                                                      *)
(***************************************************************************)
\* no goroutine has called Lock
NoWriter == 0
\* sync.Mutex that no goroutine holds
NoHolder == 0
CanRLock(m) == m.writer = NoWriter
RLock(m, t) == [m EXCEPT !.readers = @ \cup {t}]
RUnlock(m, t) == [m EXCEPT !.readers = @ \ {t}]
CanAnnounce(m) == m.writer = NoWriter
Announce(m, t) == [m EXCEPT !.writer = t]
CanLock(m, t) == m.writer = t /\ m.readers = {}
Unlock(m) == [m EXCEPT !.writer = NoWriter]

(***************************************************************************)
(* The breaker run by goroutines that call its three methods in any order. *)
(* hist is history only: consec counts the recordFailure calls since the   *)
(* last recordSuccess, lastFail is the instant of the last recordFailure,  *)
(* afterSuccess says that no recordFailure followed the last recordSuccess,*)
(* resetFrom is the state that recordSuccess found.                        *)
(***************************************************************************)
NoSeen == [state |-> "none", cooled |-> FALSE, afterSuccess |-> FALSE]

\* the state of the structures at process start (main.go:19-59)
StartBreaker ==
    /\ circuitBreaker = [failures |-> 0, lastFailure |-> ZeroTime, state |-> "CLOSED"]
    /\ mux = [readers |-> {}, writer |-> NoWriter]
    /\ ret = [t \in Threads |-> "none"]
    /\ seen = [t \in Threads |-> NoSeen]
    /\ hist = [consec |-> 0, lastFail |-> ZeroTime, afterSuccess |-> FALSE,
               resetFrom |-> "none"]

StartPool ==
    /\ brutoConnectionPool = [connections |-> <<>>, current |-> 0, mu |-> NoHolder]
    /\ handed = <<>>

\* make(map[string]time.Time), make(map[string]interface{}): no key yet
EmptyMap == [k \in {} |-> 0]

StartHealth ==
    /\ lastHealthCheck = EmptyMap
    /\ healthCheckMutex = NoHolder
    /\ brutoCache = EmptyMap
    /\ checks = <<>>

\* no request has arrived: processedPayments.m is empty (main.go:56-59)
\* the handler goroutines of the requests in flight
Handlers == {"h1", "h2"}

NoRequest == [kind |-> "none", cid |-> "", after |-> {}]
NoResponse == [code |-> 0, id |-> "", status |-> "", message |-> ""]
NotLaunched == [real |-> "none", outcome |-> "none", conn |-> "nil",
                startedAt |-> 0, fb |-> <<>>]

StartDispatch ==
    /\ request = [r \in Handlers |-> NoRequest]
    /\ resultChan = [r \in Handlers |-> <<>>]
    /\ strategy = [r \in Handlers |-> NotLaunched]
    /\ response = [r \in Handlers |-> NoResponse]
    /\ processedPayments = {}
    /\ crashed = FALSE
    /\ clock = 0

\* the clients of the load balancer
Clients == {"c1", "c2", "c3"}

NoHost == [prefix |-> "", name |-> ""]
NoClient == [pc |-> "idle", body |-> [kind |-> "none", cid |-> ""],
             host |-> NoHost, attempts |-> <<>>, response |-> NoResponse,
             by |-> "none"]

\* a load balancer that has just started in front of two fresh backends
StartProxy ==
    /\ proxy = "ReverseProxy"
    /\ currentBackend = 0
    /\ alive = <<TRUE, TRUE>>
    /\ client = [c \in Clients |-> NoClient]
    /\ instanceKeys = <<{}, {}>>
    /\ picks = <<>>

\* a goroutine that is not inside ResolverFunc
NoCall == [kid |-> "", found |-> FALSE, key |-> 0, ttlFound |-> FALSE,
           ttl |-> ZeroTime]

\* NewCachingKeyResolver: two empty maps (part_001:25-30)
StartResolver ==
    /\ keyResolver = [cache |-> EmptyMap, ttlManager |-> EmptyMap,
                      mu |-> NoHolder]
    /\ resolving = [t \in Threads |-> NoCall]
    /\ fetched = <<>>
    /\ resolved = <<>>

\* HTTPSummaryResponse with both processors at zero
ZeroSummary ==
    [default |-> [totalRequests |-> 0, totalAmount |-> 0],
     fallback |-> [totalRequests |-> 0, totalAmount |-> 0]]

\* a goroutine that is not inside a handler of the summary service
NoLookup == [key |-> "", summary |-> ZeroSummary]

\* the summary service at start (summary-service/main.go:20-32)
StartSummary ==
    /\ brutoSummary = ZeroSummary
    /\ summaryCache = EmptyMap
    /\ summarizing = [t \in Threads |-> NoLookup]
    /\ served = <<>>

\* no GET /payments-summary has arrived
NoSummaryStrategy ==
    [real |-> "none", outcome |-> [kind |-> "none", body |-> ZeroSummary],
     fb |-> <<>>]
NoSummaryResponse == [code |-> 0, summary |-> ZeroSummary]

StartPaySum ==
    /\ summaryChan = [r \in Handlers |-> <<>>]
    /\ summaryStrategy = [r \in Handlers |-> NoSummaryStrategy]
    /\ summaryResponse = [r \in Handlers |-> NoSummaryResponse]

StartRest == StartResolver /\ StartSummary /\ StartPaySum

InitBreaker ==
    /\ variant \in BreakerVariants
    /\ now = 0
    /\ pc = [t \in Threads |-> "idle"]
    /\ StartBreaker
    /\ StartPool
    /\ StartHealth
    /\ StartDispatch
    /\ StartProxy
    /\ StartRest


\* cb.mux.RLock(); switch cb.state { ... }
CanExecuteBegin(t) ==
    /\ pc[t] = "idle"
    /\ CanRLock(mux)
    /\ mux' = RLock(mux, t)
    /\ LET d == canExecuteSwitch(variant, circuitBreaker) IN
       /\ ret' = [ret EXCEPT ![t] = IF d = "halfOpen" THEN "none" ELSE d]
       /\ pc' = [pc EXCEPT ![t] =
                   IF d # "halfOpen" THEN "ce_ret"
                   ELSE IF ReleasesBeforeLock(variant) THEN "ce_runlock"
                   ELSE "ce_lock"]
    /\ seen' = [seen EXCEPT ![t] =
                   [state |-> circuitBreaker.state,
                    cooled |-> Since(circuitBreaker.lastFailure) > Cooldown(variant),
                    afterSuccess |-> hist.afterSuccess]]
    /\ UNCHANGED <<proxyVars, restVars>>
    /\ UNCHANGED <<variant, now, circuitBreaker, hist, poolVars, healthVars, dispVars>>

\* cb.mux.RUnlock() of the OPEN branch (part_003:604)
CanExecuteRUnlock(t) ==
    /\ pc[t] = "ce_runlock"
    /\ mux' = RUnlock(mux, t)
    /\ pc' = [pc EXCEPT ![t] = "ce_lock"]
    /\ UNCHANGED <<proxyVars, restVars>>
    /\ UNCHANGED <<variant, now, circuitBreaker, ret, seen, hist, poolVars, healthVars, dispVars>>

\* cb.mux.Lock() of the OPEN branch is called
CanExecuteLock(t) ==
    /\ pc[t] = "ce_lock"
    /\ CanAnnounce(mux)
    /\ mux' = Announce(mux, t)
    /\ pc' = [pc EXCEPT ![t] = "ce_wait"]
    /\ UNCHANGED <<proxyVars, restVars>>
    /\ UNCHANGED <<variant, now, circuitBreaker, ret, seen, hist, poolVars, healthVars, dispVars>>

\* cb.mux.Lock() returns; cb.state = HALF_OPEN; cb.mux.Unlock()
CanExecuteHalfOpen(t) ==
    /\ pc[t] = "ce_wait"
    /\ CanLock(mux, t)
    /\ circuitBreaker' = canExecuteHalfOpen(circuitBreaker)
    /\ mux' = Unlock(mux)
    /\ IF ReleasesBeforeLock(variant)
       THEN pc' = [pc EXCEPT ![t] = "ce_rlock"] /\ UNCHANGED ret
       ELSE pc' = [pc EXCEPT ![t] = "ce_ret"] /\ ret' = [ret EXCEPT ![t] = "true"]
    /\ UNCHANGED <<proxyVars, restVars>>
    /\ UNCHANGED <<variant, now, seen, hist, poolVars, healthVars, dispVars>>

\* cb.mux.RLock(); return true (part_003:608-609)
CanExecuteRLock(t) ==
    /\ pc[t] = "ce_rlock"
    /\ CanRLock(mux)
    /\ mux' = RLock(mux, t)
    /\ ret' = [ret EXCEPT ![t] = "true"]
    /\ pc' = [pc EXCEPT ![t] = "ce_ret"]
    /\ UNCHANGED <<proxyVars, restVars>>
    /\ UNCHANGED <<variant, now, circuitBreaker, seen, hist, poolVars, healthVars, dispVars>>

\* the deferred cb.mux.RUnlock(); the call returns ret[t]
CanExecuteReturn(t) ==
    /\ pc[t] = "ce_ret"
    /\ mux' = RUnlock(mux, t)
    /\ pc' = [pc EXCEPT ![t] = "idle"]
    /\ ret' = [ret EXCEPT ![t] = "none"]
    /\ seen' = [seen EXCEPT ![t] = NoSeen]
    /\ UNCHANGED <<proxyVars, restVars>>
    /\ UNCHANGED <<variant, now, circuitBreaker, hist, poolVars, healthVars, dispVars>>

\* recordSuccess: cb.mux.Lock() is called
RecordSuccessCall(t) ==
    /\ pc[t] = "idle"
    /\ CanAnnounce(mux)
    /\ mux' = Announce(mux, t)
    /\ pc' = [pc EXCEPT ![t] = "rs_wait"]
    /\ UNCHANGED <<proxyVars, restVars>>
    /\ UNCHANGED <<variant, now, circuitBreaker, ret, seen, hist, poolVars, healthVars, dispVars>>

\* recordSuccess: the lock is taken, the body runs, the deferred Unlock
RecordSuccess(t) ==
    /\ pc[t] = "rs_wait"
    /\ CanLock(mux, t)
    /\ circuitBreaker' = recordSuccessBody(circuitBreaker)
    /\ mux' = Unlock(mux)
    /\ pc' = [pc EXCEPT ![t] = "idle"]
    /\ hist' = [hist EXCEPT !.consec = 0, !.afterSuccess = TRUE,
                            !.resetFrom = circuitBreaker.state]
    /\ UNCHANGED <<proxyVars, restVars>>
    /\ UNCHANGED <<variant, now, ret, seen, poolVars, healthVars, dispVars>>

\* recordFailure: cb.mux.Lock() is called
RecordFailureCall(t) ==
    /\ pc[t] = "idle"
    /\ hist.consec < Threshold(variant) + ExtraFailures
    /\ CanAnnounce(mux)
    /\ mux' = Announce(mux, t)
    /\ pc' = [pc EXCEPT ![t] = "rf_wait"]
    /\ UNCHANGED <<proxyVars, restVars>>
    /\ UNCHANGED <<variant, now, circuitBreaker, ret, seen, hist, poolVars, healthVars, dispVars>>

\* recordFailure: the lock is taken, the body runs, the deferred Unlock
RecordFailure(t) ==
    /\ pc[t] = "rf_wait"
    /\ CanLock(mux, t)
    /\ circuitBreaker' = recordFailureBody(variant, circuitBreaker)
    /\ mux' = Unlock(mux)
    /\ pc' = [pc EXCEPT ![t] = "idle"]
    /\ hist' = [consec |-> hist.consec + 1, lastFail |-> now,
                afterSuccess |-> FALSE, resetFrom |-> "none"]
    /\ UNCHANGED <<proxyVars, restVars>>
    /\ UNCHANGED <<variant, now, ret, seen, poolVars, healthVars, dispVars>>

\* time passes
Tick ==
    /\ now + TickSeconds <= MaxTime
    /\ now' = now + TickSeconds
    /\ UNCHANGED <<proxyVars, restVars>>
    /\ UNCHANGED <<variant, circuitBreaker, mux, pc, ret, seen, hist, poolVars, healthVars, dispVars>>

BreakerStep(t) ==
    \/ CanExecuteBegin(t)
    \/ CanExecuteRUnlock(t)
    \/ CanExecuteLock(t)
    \/ CanExecuteHalfOpen(t)
    \/ CanExecuteRLock(t)
    \/ CanExecuteReturn(t)
    \/ RecordSuccessCall(t)
    \/ RecordSuccess(t)
    \/ RecordFailureCall(t)
    \/ RecordFailure(t)

NextBreaker == Tick \/ \E t \in Threads : BreakerStep(t)

SpecBreaker == InitBreaker /\ [][NextBreaker]_vars

\* the calls do not overlap: a goroutine moves only while every other one
\* is outside the breaker
Alone(t) == \A u \in Threads \ {t} : pc[u] = "idle"

NextBreakerSeq == Tick \/ \E t \in Threads : Alone(t) /\ BreakerStep(t)

SpecBreakerSeq == InitBreaker /\ [][NextBreakerSeq]_vars

\* whether the next step of goroutine t inside the breaker can be taken
StepEnabled(t) ==
    CASE pc[t] = "ce_runlock" -> TRUE
      [] pc[t] = "ce_lock"    -> CanAnnounce(mux)
      [] pc[t] = "ce_wait"    -> CanLock(mux, t)
      [] pc[t] = "ce_rlock"   -> CanRLock(mux)
      [] pc[t] = "ce_ret"     -> TRUE
      [] pc[t] = "rs_wait"    -> CanLock(mux, t)
      [] pc[t] = "rf_wait"    -> CanLock(mux, t)
      [] OTHER                -> FALSE

(***************************************************************************)
(* Claims about the circuit breaker.                                       *)
(***************************************************************************)
WithinCooldown == hist.lastFail # ZeroTime /\ now - hist.lastFail <= Cooldown(variant)

C6_SuccessResets ==
    /\ [][\A t \in Threads :
             RecordSuccess(t) =>
                 /\ circuitBreaker'.failures = 0
                 /\ circuitBreaker'.state = "CLOSED"]_vars
    /\ [](\A t \in Threads :
             (pc[t] = "ce_ret" /\ seen[t].afterSuccess) => ret[t] = "true")

\* a recordSuccess found the breaker OPEN and the canExecute after it
\* returns true inside the cooldown window
C6_Witness ==
    \E t \in Threads :
        /\ pc[t] = "ce_ret"
        /\ seen[t].afterSuccess
        /\ hist.resetFrom = "OPEN"
        /\ WithinCooldown
        /\ circuitBreaker.failures = 0
        /\ ret[t] = "true"

InTransition(t) == pc[t] \in {"ce_runlock", "ce_lock", "ce_wait", "ce_rlock"}

\* C7: when the calls do not overlap, canExecute returns true in CLOSED and
\* HALF_OPEN and false in OPEN before the cooldown has elapsed; in OPEN with
\* the cooldown elapsed it is never held up, sets HALF_OPEN and returns true.
C7_CanExecuteContract ==
    \A t \in Threads :
        /\ pc[t] = "ce_ret" =>
               /\ ret[t] = IF seen[t].state = "OPEN" /\ ~seen[t].cooled
                            THEN "false" ELSE "true"
               /\ (seen[t].state = "OPEN" /\ seen[t].cooled)
                      => circuitBreaker.state = "HALF_OPEN"
        /\ InTransition(t) => StepEnabled(t)

\* C8: no operation on the breaker deadlocks: whenever goroutines are
\* inside a breaker method, one of them can take its next step.
C8_NoDeadlock ==
    \A t \in Threads :
        pc[t] # "idle" => \E u \in Threads : pc[u] # "idle" /\ StepEnabled(u)

\* C32: under every interleaving of canExecute, recordSuccess and
\* recordFailure the breaker record stays consistent: CLOSED implies
\* failures < threshold, OPEN or HALF_OPEN implies failures >= threshold;
\* the OPEN to HALF_OPEN transition of canExecute never overwrites a CLOSED
\* set by a concurrent recordSuccess.
C32_RecordConsistent ==
    /\ circuitBreaker.state = "CLOSED" =>
          circuitBreaker.failures < Threshold(variant)
    /\ circuitBreaker.state \in {"OPEN", "HALF_OPEN"} =>
          circuitBreaker.failures >= Threshold(variant)

\* a canExecute wrote HALF_OPEN over the CLOSED of a recordSuccess that
\* got the lock first
C32_Overwritten ==
    /\ circuitBreaker.state = "HALF_OPEN"
    /\ circuitBreaker.failures = 0
    /\ hist.afterSuccess
    /\ hist.resetFrom = "OPEN"

\* C33: in HALF_OPEN a recordFailure puts the breaker back to OPEN with a
\* fresh lastFailure stamp, so that canExecute is false again for a full
\* cooldown; the OPEN to HALF_OPEN transition does not reset the count.
C33_HalfOpenFailureReopens ==
    /\ [][\A t \in Threads :
            (RecordFailure(t) /\ circuitBreaker.state = "HALF_OPEN") =>
                /\ circuitBreaker'.state = "OPEN"
                /\ circuitBreaker'.lastFailure = now
                /\ circuitBreaker'.failures = circuitBreaker.failures + 1
                /\ canExecuteSwitch(variant, circuitBreaker') = "false"]_vars
    /\ [][\A t \in Threads :
            CanExecuteHalfOpen(t) =>
                circuitBreaker'.failures = circuitBreaker.failures]_vars

\* a recordFailure found the breaker HALF_OPEN and left it HALF_OPEN
C33_StillHalfOpen ==
    /\ circuitBreaker.state = "HALF_OPEN"
    /\ ~hist.afterSuccess
    /\ hist.consec = 1
    /\ circuitBreaker.failures = 1

(***************************************************************************)
(* BRUTOConnectionPool.  The orchestrator and the api gateway keep HTTP    *)
(* clients and create the first one on demand; the two gRPC gateways get   *)
(* the connections that main dialled and never create one.  handed is      *)
(* history only.                                                           *)
(***************************************************************************)
PoolVariants == {"orchestrator", "gateway", "gatewayBruto", "apiGateway"}

\* the pool creates its first handle inside GetConnection
LazyPool(v) == v \in {"orchestrator", "apiGateway"}

\* grpc.Dial("payment-orchestrator:8444"), grpc.Dial("summary-service:8445")
paymentOrchestratorConn == "payment-orchestrator:8444"
summaryServiceConn == "summary-service:8445"

\* what main appended to brutoConnectionPool.connections before serving
DialedConns(v) ==
    CASE v = "gateway" -> {<<paymentOrchestratorConn, summaryServiceConn>>}
      [] v = "gatewayBruto" -> {<<>>, <<paymentOrchestratorConn>>,
                                <<summaryServiceConn>>,
                                <<paymentOrchestratorConn, summaryServiceConn>>}
      [] OTHER -> {<<>>}

\* a cursor that stays where it is
cursorStuck(current, len) == current

\* a cursor that is not taken modulo the length
cursorNoWrap(current, len) == current + 1

\* p.current = (p.current + 1) % len(p.connections)
cursorNext(current, len) == (current + 1) % len

\* the body of GetConnection, between Lock and the deferred Unlock
getConnection(v, p) ==
    IF Len(p.connections) = 0
    THEN IF LazyPool(v)
         THEN [pool |-> [p EXCEPT !.connections = Append(@, "client")],
               conn |-> "client"]
         ELSE [pool |-> p, conn |-> "nil"]
    ELSE [pool |-> [p EXCEPT !.current = cursorNext(@, Len(p.connections))],
          conn |-> p.connections[p.current + 1]]

\* a GetConnection that returns with the pool still locked
keepsLock(p) == p

\* defer p.mu.Unlock()
unlocked(p) == [p EXCEPT !.mu = NoHolder]

InitPool ==
    /\ variant \in PoolVariants
    /\ now = 0
    /\ pc = [t \in Threads |-> "idle"]
    /\ StartBreaker
    /\ brutoConnectionPool \in [connections : DialedConns(variant),
                                current : {0}, mu : {NoHolder}]
    /\ handed = <<>>
    /\ StartHealth
    /\ StartDispatch
    /\ StartProxy
    /\ StartRest

\* p.mu.Lock()
GetConnectionLock(t) ==
    /\ pc[t] = "idle"
    /\ Len(handed) < MaxCalls
    /\ brutoConnectionPool.mu = NoHolder
    /\ brutoConnectionPool' = [brutoConnectionPool EXCEPT !.mu = t]
    /\ pc' = [pc EXCEPT ![t] = "gc_body"]
    /\ UNCHANGED <<proxyVars, restVars>>
    /\ UNCHANGED <<variant, now, handed, cbVars, healthVars, dispVars>>

\* the body, the return and the deferred p.mu.Unlock()
GetConnectionReturn(t) ==
    /\ pc[t] = "gc_body"
    /\ LET r == getConnection(variant, brutoConnectionPool) IN
       /\ brutoConnectionPool' = unlocked(r.pool)
       /\ handed' = Append(handed, r.conn)
    /\ pc' = [pc EXCEPT ![t] = "idle"]
    /\ UNCHANGED <<proxyVars, restVars>>
    /\ UNCHANGED <<variant, now, cbVars, healthVars, dispVars>>

NextPool == \E t \in Threads : GetConnectionLock(t) \/ GetConnectionReturn(t)

SpecPool == InitPool /\ [][NextPool]_vars

\* how often GetConnection has returned the handle h
TimesHanded(h) == Cardinality({i \in 1..Len(handed) : handed[i] = h})

\* C9: once a pool of K handles has served M >= K GetConnection calls, each
\* of the K handles has been returned at least floor(M/K) times, and no K
\* consecutive calls returned the same handle twice.
C9_PoolFairness ==
    LET K == Len(brutoConnectionPool.connections)
        M == Len(handed) IN
    (K >= 1 /\ M >= K) =>
        /\ \A k \in 1..K :
              TimesHanded(brutoConnectionPool.connections[k]) >= M \div K
        /\ \A first \in 1..(M - K + 1) :
              \A i, j \in first..(first + K - 1) :
                  i # j => handed[i] # handed[j]

\* a pool of two handles has gone around twice
C9_Witness ==
    /\ Len(brutoConnectionPool.connections) = 2
    /\ Len(handed) >= 4
    /\ handed[1] # handed[2]
    /\ handed[3] = handed[1]
    /\ handed[4] = handed[2]

\* C34: in every reachable state of a pool, under any interleaving of
\* GetConnection calls, 0 <= current < len(connections) whenever the pool is
\* not empty; an empty gRPC pool returns nil and leaves the cursor where it
\* was; the HTTP pool that creates its handle on demand creates exactly one
\* however many callers race on the first call.
C34_CursorInRange ==
    LET p == brutoConnectionPool IN
    /\ Len(p.connections) > 0 =>
          (0 <= p.current /\ p.current < Len(p.connections))
    /\ (~LazyPool(variant) /\ Len(p.connections) = 0) =>
          /\ p.current = 0
          /\ \A i \in 1..Len(handed) : handed[i] = "nil"
    /\ LazyPool(variant) =>
          /\ Len(p.connections) <= 1
          /\ handed # <<>> =>
                /\ p.connections = <<"client">>
                /\ \A i \in 1..Len(handed) : handed[i] = "client"

\* two goroutines have been through the first calls on the HTTP pool, one
\* of them is inside GetConnection again, and the pool holds one client
C34_Witness ==
    /\ LazyPool(variant)
    /\ Len(handed) >= 2
    /\ Len(brutoConnectionPool.connections) = 1
    /\ brutoConnectionPool.current = 0
    /\ \E t \in Threads : pc[t] = "gc_body"

(***************************************************************************)
(* checkPaymentProcessorHealth of the api gateway, for the one processor   *)
(* its handler asks about.  healthCheckMutex is held from the first line   *)
(* to the return, the probe included.  checks is history only: one entry   *)
(* per call, with the instant at which the call read the clock.            *)
(***************************************************************************)
\* checkPaymentProcessorHealth("payment-processor")
Processor == "payment-processor"

\* 5*time.Second
RateLimitWindow == 5

\* what the GET /payments/service-health can come back with
ProbeOutcomes ==
    {"healthy", "failing", "error", "timeout", "non200", "undecodable"}

\* a probe that counts as healthy whenever it did not read failing = true
probeHealthyUnlessFailing(outcome) == outcome # "failing"

\* status 200, a body that decodes, and isHealthy := !health.Failing;
\* every other way out of the probe stores and returns false
probeHealthy(outcome) == outcome = "healthy"

\* a rate limit with the comparison turned around
rateLimitedFlipped(last) ==
    /\ Processor \in DOMAIN last
    /\ Since(last[Processor]) > RateLimitWindow

\* lastCheck, exists := lastHealthCheck[processor];
\* exists && time.Since(lastCheck) < 5*time.Second
rateLimited(last) ==
    /\ Processor \in DOMAIN last
    /\ Since(last[Processor]) < RateLimitWindow

\* brutoCache.Get("health_<processor>") == true
cachedHealth(cache) == Processor \in DOMAIN cache /\ cache[Processor]

InitHealth ==
    /\ variant = "apiGateway"
    /\ now = 0
    /\ pc = [t \in Threads |-> "idle"]
    /\ StartBreaker
    /\ StartPool
    /\ StartHealth
    /\ StartDispatch
    /\ StartProxy
    /\ StartRest

\* Lock; the rate limit holds: answer from the cache; Unlock
CheckHealthCached(t) ==
    /\ pc[t] = "idle"
    /\ Len(checks) < MaxChecks
    /\ healthCheckMutex = NoHolder
    /\ rateLimited(lastHealthCheck)
    /\ checks' = Append(checks, [at |-> now, probed |-> FALSE,
                                 outcome |-> "none",
                                 answer |-> cachedHealth(brutoCache)])
    /\ UNCHANGED <<proxyVars, restVars>>
    /\ UNCHANGED <<common, cbVars, poolVars, lastHealthCheck,
                   healthCheckMutex, brutoCache, dispVars>>

\* Lock; the rate limit does not hold: stamp the instant of this probe
CheckHealthProbe(t) ==
    /\ pc[t] = "idle"
    /\ Len(checks) < MaxChecks
    /\ healthCheckMutex = NoHolder
    /\ ~rateLimited(lastHealthCheck)
    /\ healthCheckMutex' = t
    /\ lastHealthCheck' = [p \in {Processor} |-> now]
    /\ pc' = [pc EXCEPT ![t] = "hc_stamped"]
    /\ UNCHANGED <<proxyVars, restVars>>
    /\ UNCHANGED <<variant, now, cbVars, poolVars, brutoCache, checks,
                   dispVars>>

\* client := brutoConnectionPool.GetConnection(): p.mu.Lock(), with
\* healthCheckMutex held
CheckHealthGetConnection(t) ==
    /\ pc[t] = "hc_stamped"
    /\ brutoConnectionPool.mu = NoHolder
    /\ brutoConnectionPool' = [brutoConnectionPool EXCEPT !.mu = t]
    /\ pc' = [pc EXCEPT ![t] = "hc_conn"]
    /\ UNCHANGED <<proxyVars, restVars>>
    /\ UNCHANGED <<variant, now, handed, cbVars, healthVars, dispVars>>

\* GetConnection returns and unlocks the pool; the probe is sent
CheckHealthSend(t) ==
    /\ pc[t] = "hc_conn"
    /\ LET r == getConnection(variant, brutoConnectionPool) IN
       /\ brutoConnectionPool' = unlocked(r.pool)
       /\ handed' = Append(handed, r.conn)
    /\ pc' = [pc EXCEPT ![t] = "hc_probe"]
    /\ UNCHANGED <<proxyVars, restVars>>
    /\ UNCHANGED <<variant, now, cbVars, healthVars, dispVars>>

\* the probe has answered or failed: brutoCache.Set, return, Unlock
CheckHealthReturn(t) ==
    /\ pc[t] = "hc_probe"
    /\ \E outcome \in ProbeOutcomes :
         LET isHealthy == probeHealthy(outcome) IN
         /\ brutoCache' = [p \in {Processor} |-> isHealthy]
         /\ checks' = Append(checks, [at |-> lastHealthCheck[Processor],
                                      probed |-> TRUE, outcome |-> outcome,
                                      answer |-> isHealthy])
    /\ healthCheckMutex' = NoHolder
    /\ pc' = [pc EXCEPT ![t] = "idle"]
    /\ UNCHANGED <<proxyVars, restVars>>
    /\ UNCHANGED <<variant, now, cbVars, poolVars, lastHealthCheck, dispVars>>

\* the clock advances; a probe in flight ends within its 500 ms, which is
\* before the clock has advanced twice
HealthTick ==
    /\ now + HealthTickSeconds <= HealthMaxTime
    /\ \A t \in Threads :
          pc[t] \in {"hc_stamped", "hc_conn", "hc_probe"} =>
              lastHealthCheck[Processor] = now
    /\ now' = now + HealthTickSeconds
    /\ UNCHANGED <<proxyVars, restVars>>
    /\ UNCHANGED <<variant, pc, cbVars, poolVars, healthVars, dispVars>>

NextHealth ==
    \/ HealthTick
    \/ \E t \in Threads :
         \/ CheckHealthCached(t)
         \/ CheckHealthProbe(t)
         \/ CheckHealthGetConnection(t)
         \/ CheckHealthSend(t)
         \/ CheckHealthReturn(t)
         \/ GetConnectionLock(t)
         \/ GetConnectionReturn(t)

SpecHealth == InitHealth /\ [][NextHealth]_vars

\* the calls before call j that probed less than the window before it
RecentProbes(j) ==
    {i \in 1..(j - 1) :
        checks[i].probed /\ checks[j].at - checks[i].at < RateLimitWindow}

\* the last element of a non-empty set of call numbers
Latest(S) == CHOOSE i \in S : \A k \in S : k <= i

\* C10 as stated: of two health checks less than 5 seconds apart at most one
\* probes, and the later one is answered from the cache.
C10_LaterAlwaysCached ==
    \A i, j \in 1..Len(checks) :
        (i < j /\ checks[j].at - checks[i].at < RateLimitWindow) =>
            /\ ~(checks[i].probed /\ checks[j].probed)
            /\ ~checks[j].probed

\* C10: of two health checks less than 5 seconds apart at most one probes;
\* a check made less than 5 seconds after a check that probed does not
\* probe and is answered with the value that probe stored in the cache.
C10_HealthRateLimit ==
    /\ \A i, j \in 1..Len(checks) :
          (i < j /\ checks[j].at - checks[i].at < RateLimitWindow) =>
              ~(checks[i].probed /\ checks[j].probed)
    /\ \A j \in 1..Len(checks) :
          RecentProbes(j) # {} =>
              /\ ~checks[j].probed
              /\ checks[j].answer = checks[Latest(RecentProbes(j))].answer

\* a probe that found the processor healthy, then a later check inside the
\* window answered from the cache
C10_Witness ==
    \E i, j \in 1..Len(checks) :
        /\ i < j
        /\ checks[i].probed /\ checks[i].answer
        /\ checks[j].at > checks[i].at
        /\ checks[j].at - checks[i].at < RateLimitWindow
        /\ ~checks[j].probed /\ checks[j].answer

(***************************************************************************)
(* POST /payments.  One handler goroutine per request; a dispatch starts   *)
(* the strategy goroutines of the variant, waits for the first value on    *)
(* resultChan, records the key and answers.  A request body is taken as    *)
(* what json.Decode makes of it:                                           *)
(*   ok         an object with a correlationId and a positive amount       *)
(*   badAmount  an object with a correlationId and an amount <= 0          *)
(*   noCid      an object without a string correlationId                   *)
(*   null       the JSON value null, which decodes into a nil map          *)
(*   badJson    anything Decode returns an error for                       *)
(* request[r].after is history only: the handlers that had answered when   *)
(* request r arrived.  Spec runs two handlers at once in the orchestrator, *)
(* the gateway and the api gateway; SpecTimed runs one dispatch of every   *)
(* service against a clock.                                                *)
(***************************************************************************)
DispatchVariants == {"orchestrator", "gateway", "apiGateway"}

\* the correlation ids the clients use
Keys == {"a", "b"}

Bodies ==
    [kind : {"ok", "badAmount"}, cid : Keys]
        \cup [kind : {"noCid", "null", "badJson"}, cid : {""}]

\* the handler starts with circuitBreaker.canExecute()
HasGate(v) == v \in {"orchestrator", "apiGateway"}

\* the handler decodes into PaymentRequest and checks its fields
Validates(v) == v \in {"gateway", "gatewayBruto"}

\* the real call is a gRPC call on a pooled connection
UsesGrpc(v) == v \in {"gateway", "gatewayBruto"}

\* a result channel with room for one value
chanCapOne(v) == 1

\* make(chan HTTPPaymentResponse, n)
ChanCap(v) ==
    CASE v = "orchestrator" -> 2
      [] v = "gateway" -> 3
      [] v = "gatewayBruto" -> 4
      [] v = "apiGateway" -> 2

\* the local strategies: time.Sleep before the send (ms), Message
Fallbacks(v) ==
    CASE v = "orchestrator" ->
           <<[delay |-> 50, message |-> "Local fallback"],
             [delay |-> 100, message |-> "Instant fallback guarantee"]>>
      [] v = "gateway" ->
           <<[delay |-> 0, message |-> "Direct processing"],
             [delay |-> 0, message |-> "Local processing"]>>
      [] v = "gatewayBruto" ->
           <<[delay |-> 0, message |-> "Direct processing"],
             [delay |-> 0, message |-> "Local processing"],
             [delay |-> 0, message |-> "Cache processing"]>>
      [] v = "apiGateway" ->
           <<[delay |-> 200, message |-> "Local fallback"]>>

\* context.WithTimeout of the real call, in ms
CallTimeout(v) ==
    CASE v = "orchestrator" -> 300
      [] v = "gateway" -> 500
      [] v = "gatewayBruto" -> 100
      [] v = "apiGateway" -> 500

\* a local strategy that sleeps for as long as the real call may take
fallbackDelaySlow(v, i) == CallTimeout(v)

\* time.Sleep(d) of the i-th local strategy, in ms
fallbackDelay(v, i) == Fallbacks(v)[i].delay

\* the longest the health check can hold the real strategy back, in ms:
\* the probe's context.WithTimeout where there is a probe
HealthBudget(v) == IF v = "apiGateway" THEN 500 ELSE 0

\* Message of a successful real call
realMessage(v) ==
    CASE v = "gateway" -> "Payment processed successfully"
      [] v = "gatewayBruto" -> "Orchestrator processing"
      [] OTHER -> "Payment processed by payment-processor"

\* HTTPPaymentResponse returned by callPaymentProcessorBRUTO /
\* callPaymentOrchestratorBRUTO; resp.PaymentId of the gRPC answer is taken
\* to be the PaymentId that was sent
callResult(v, out, cid) ==
    IF out = "ok"
    THEN [id |-> cid, status |-> "processed", message |-> realMessage(v)]
    ELSE [id |-> "", status |-> "error",
          message |-> IF UsesGrpc(v) THEN "Orchestrator failed"
                      ELSE IF out = "non2xx"
                           THEN "payment-processor returned error"
                           ELSE "payment-processor failed"]

\* HTTPPaymentResponse of the i-th local strategy
fallbackResult(v, i, cid) ==
    [id |-> cid, status |-> "processed", message |-> Fallbacks(v)[i].message]

\* a strategy that puts whatever the call returned on the channel
deliversAlways(resp) == TRUE

\* if resp.Status != "error" { resultChan <- resp }
delivers(resp) == resp.status # "error"

\* a lookup that never finds the key
existsNever(keys, cid) == FALSE

\* a lookup that finds every key
existsAlways(keys, cid) == TRUE

\* _, exists := processedPayments.m[correlationId]
exists(keys, cid) == cid \in keys

\* a handler that takes the value sent last
receiveLast(ch) == ch[Len(ch)]

\* result := <-resultChan
receive(ch) == Head(ch)

\* a record that forgets the keys recorded before
recordOnly(keys, cid) == {cid}

\* a strategy that calls downstream whatever the health check said
proceedsAnyway(healthy) == TRUE

\* if checkPaymentProcessorHealth("payment-processor") { ... }
proceeds(healthy) == healthy

\* a service in which every failed call is given to the breaker
recordsFailuresAlways(v) == TRUE

\* the real call hands its outcome to the breaker: the one recordFailure
\* call site of the repository is callPaymentOrchestratorBRUTO of part_003
recordsFailures(v) == v = "gatewayBruto"

\* a record that drops a key it finds already there
recordToggles(keys, cid) ==
    IF cid \in keys THEN keys \ {cid} ELSE keys \cup {cid}

\* processedPayments.m[correlationId] = struct{}{}
record(keys, cid) == keys \cup {cid}

httpError(code, message) ==
    [code |-> code, id |-> "", status |-> "", message |-> message]

\* what the handler writes when the key is already recorded
duplicateResponse(v, cid) ==
    IF Validates(v)
    THEN httpError(409, "Payment already processed")
    ELSE [code |-> 200, id |-> cid, status |-> "processed",
          message |-> "Idempotent: already processed"]

\* a handler without the dedup lookup
earlyAnswerNoLookup(v, gate, body, keys) ==
    IF gate = "false"
    THEN httpError(503, "Service temporarily unavailable")
    ELSE IF body.kind = "badJson"
    THEN httpError(400, IF Validates(v) THEN "Invalid JSON" ELSE "Invalid request")
    ELSE IF Validates(v) /\ body.cid = ""
    THEN httpError(400, "correlationId is required")
    ELSE IF Validates(v) /\ body.kind = "badAmount"
    THEN httpError(400, "amount must be positive")
    ELSE NoResponse

\* the answer the handler gives before any strategy is started, or
\* NoResponse when it goes on to dispatch
earlyAnswer(v, gate, body, keys) ==
    IF gate = "false"
    THEN httpError(503, "Service temporarily unavailable")
    ELSE IF body.kind = "badJson"
    THEN httpError(400, IF Validates(v) THEN "Invalid JSON" ELSE "Invalid request")
    ELSE IF Validates(v) /\ body.cid = ""
    THEN httpError(400, "correlationId is required")
    ELSE IF Validates(v) /\ body.kind = "badAmount"
    THEN httpError(400, "amount must be positive")
    ELSE IF exists(keys, body.cid)
    THEN duplicateResponse(v, body.cid)
    ELSE NoResponse

\* the strategy goroutines right after the go statements
Launched(v) ==
    [real |-> "launched", outcome |-> "none", conn |-> "nil", startedAt |-> 0,
     fb |-> [i \in 1..Len(Fallbacks(v)) |-> "sleeping"]]

\* resultChan <- x does not block
Room(r) == Len(resultChan[r]) < ChanCap(variant)

\* a service that has just started to listen
Started(variants) ==
    /\ variant \in variants
    /\ now = 0
    /\ pc = [r \in Handlers |-> "idle"]
    /\ StartBreaker
    /\ brutoConnectionPool \in [connections : DialedConns(variant),
                                current : {0}, mu : {NoHolder}]
    /\ handed = <<>>
    /\ StartHealth
    /\ StartDispatch
    /\ StartProxy
    /\ StartRest

Init == Started(DispatchVariants)

\* checkPaymentProcessorHealth as the real strategy calls it: every result
\* it can have, with the stamp, the cache and the pool it leaves behind
healthResults(v) ==
    IF v # "apiGateway"
    THEN {[healthy |-> TRUE, last |-> lastHealthCheck, cache |-> brutoCache,
           pool |-> brutoConnectionPool]}
    ELSE IF rateLimited(lastHealthCheck)
    THEN {[healthy |-> cachedHealth(brutoCache), last |-> lastHealthCheck,
           cache |-> brutoCache, pool |-> brutoConnectionPool]}
    ELSE {[healthy |-> probeHealthy(o),
           last |-> [p \in {Processor} |-> now],
           cache |-> [p \in {Processor} |-> probeHealthy(o)],
           pool |-> getConnection(v, brutoConnectionPool).pool]
            : o \in ProbeOutcomes}

\* how client.Do / client.OrchestratePayment can end on the connection conn
CallOutcomes(v, conn) ==
    IF ~UsesGrpc(v) THEN {"ok", "non2xx", "error", "timeout"}
    ELSE IF conn = paymentOrchestratorConn THEN {"ok", "error", "timeout"}
    ELSE {"error"}

\* the handler, given one of bodies: canExecute, Decode, validation, dedup
\* lookup, go statements
Arrival(r, bodies) ==
    /\ ~crashed
    /\ pc[r] = "idle"
    /\ \E body \in bodies :
         LET gate == IF HasGate(variant)
                     THEN canExecuteSwitch(variant, circuitBreaker)
                     ELSE "true"
             early == earlyAnswer(variant, gate, body, processedPayments)
         IN
         /\ request' = [request EXCEPT ![r] =
               [kind |-> body.kind, cid |-> body.cid,
                after |-> {q \in Handlers : pc[q] = "done"}]]
         /\ IF gate = "halfOpen" /\ ~ReleasesBeforeLock(variant)
            THEN \* cb.mux.Lock() under the read lock never returns
                 /\ pc' = [pc EXCEPT ![r] = "stuck"]
                 /\ UNCHANGED <<circuitBreaker, response, strategy, resultChan>>
            ELSE /\ circuitBreaker' = IF gate = "halfOpen"
                                      THEN canExecuteHalfOpen(circuitBreaker)
                                      ELSE circuitBreaker
                 /\ IF early # NoResponse
                    THEN /\ response' = [response EXCEPT ![r] = early]
                         /\ pc' = [pc EXCEPT ![r] = "done"]
                         /\ UNCHANGED <<strategy, resultChan>>
                    ELSE /\ strategy' = [strategy EXCEPT ![r] = Launched(variant)]
                         /\ resultChan' = [resultChan EXCEPT ![r] = <<>>]
                         /\ pc' = [pc EXCEPT ![r] = "wait"]
                         /\ UNCHANGED response
    /\ UNCHANGED <<proxyVars, restVars>>
    /\ UNCHANGED <<variant, now, mux, ret, seen, hist, poolVars, healthVars,
                   processedPayments, crashed, clock>>

RequestArrives(r) == Arrival(r, Bodies)

\* strategy 1 up to the start of the downstream call: the health check,
\* GetConnection, paymentReq["requestedAt"] = ...
RealBegin(r) ==
    /\ ~crashed
    /\ strategy[r].real = "launched"
    /\ \E h \in healthResults(variant) :
         LET g == getConnection(variant, h.pool) IN
         /\ lastHealthCheck' = h.last
         /\ brutoCache' = h.cache
         /\ IF ~proceeds(h.healthy)
            THEN /\ strategy' = [strategy EXCEPT ![r].real = "done",
                                                 ![r].outcome = "unhealthy"]
                 /\ brutoConnectionPool' = h.pool
                 /\ UNCHANGED crashed
            ELSE /\ brutoConnectionPool' = g.pool
                 /\ IF g.conn = "nil"
                    THEN /\ strategy' = [strategy EXCEPT ![r].real = "done",
                                                  ![r].outcome = "noConnection"]
                         /\ UNCHANGED crashed
                    ELSE IF request[r].kind = "null"
                    THEN \* panic: assignment to entry in nil map
                         /\ crashed' = TRUE
                         /\ UNCHANGED strategy
                    ELSE /\ strategy' = [strategy EXCEPT ![r].real = "calling",
                                                  ![r].conn = g.conn,
                                                  ![r].startedAt = clock]
                         /\ UNCHANGED crashed
    /\ UNCHANGED <<proxyVars, restVars>>
    /\ UNCHANGED <<common, cbVars, handed, healthCheckMutex, checks, request,
                   resultChan, response, processedPayments, clock>>

\* the downstream call returns; the strategy sends the result or abstains
CallReturns(r, outs) ==
    /\ ~crashed
    /\ strategy[r].real = "calling"
    /\ \E out \in outs :
         LET resp == callResult(variant, out, request[r].cid) IN
         IF out = "ok" /\ ~UsesGrpc(variant) /\ request[r].kind = "noCid"
         THEN \* panic: paymentReq["correlationId"].(string) on a nil interface
              /\ crashed' = TRUE
              /\ UNCHANGED <<strategy, resultChan, circuitBreaker, hist>>
         ELSE /\ UNCHANGED crashed
              /\ IF recordsFailures(variant)
                 THEN /\ circuitBreaker' =
                           IF out = "ok" THEN recordSuccessBody(circuitBreaker)
                           ELSE recordFailureBody(variant, circuitBreaker)
                      /\ hist' =
                           IF out = "ok"
                           THEN [hist EXCEPT !.consec = 0, !.afterSuccess = TRUE,
                                             !.resetFrom = circuitBreaker.state]
                           ELSE [consec |-> hist.consec + 1, lastFail |-> now,
                                 afterSuccess |-> FALSE, resetFrom |-> "none"]
                 ELSE UNCHANGED <<circuitBreaker, hist>>
              /\ IF delivers(resp) /\ Room(r)
                 THEN /\ resultChan' = [resultChan EXCEPT ![r] = Append(@, resp)]
                      /\ strategy' = [strategy EXCEPT ![r].real = "done",
                                                      ![r].outcome = out]
                 ELSE /\ strategy' = [strategy EXCEPT
                            ![r].real = IF delivers(resp) THEN "sending" ELSE "done",
                            ![r].outcome = out]
                      /\ UNCHANGED resultChan
    /\ UNCHANGED <<proxyVars, restVars>>
    /\ UNCHANGED <<common, mux, ret, seen, poolVars, healthVars, request,
                   response, processedPayments, clock>>

RealReturn(r) == CallReturns(r, CallOutcomes(variant, strategy[r].conn))

\* the real strategy was blocked on a full channel and now sends
RealSend(r) ==
    /\ ~crashed
    /\ strategy[r].real = "sending"
    /\ Room(r)
    /\ resultChan' = [resultChan EXCEPT ![r] =
          Append(@, callResult(variant, strategy[r].outcome, request[r].cid))]
    /\ strategy' = [strategy EXCEPT ![r].real = "done"]
    /\ UNCHANGED <<proxyVars, restVars>>
    /\ UNCHANGED <<common, cbVars, poolVars, healthVars, request, response,
                   processedPayments, crashed, clock>>

\* the i-th local strategy: its sleep is over and it sends
Fallback(r, i) ==
    /\ ~crashed
    /\ i \in DOMAIN strategy[r].fb
    /\ strategy[r].fb[i] = "sleeping"
    /\ Room(r)
    /\ resultChan' = [resultChan EXCEPT ![r] =
          Append(@, fallbackResult(variant, i, request[r].cid))]
    /\ strategy' = [strategy EXCEPT ![r].fb[i] = "sent"]
    /\ UNCHANGED <<proxyVars, restVars>>
    /\ UNCHANGED <<common, cbVars, poolVars, healthVars, request, response,
                   processedPayments, crashed, clock>>

\* result := <-resultChan; record the key; write the response;
\* circuitBreaker.recordSuccess() where the handler has a breaker
Commit(r) ==
    /\ ~crashed
    /\ pc[r] = "wait"
    /\ resultChan[r] # <<>>
    /\ LET result == receive(resultChan[r]) IN
       response' = [response EXCEPT ![r] =
           [code |-> 200, id |-> result.id, status |-> result.status,
            message |-> result.message]]
    /\ resultChan' = [resultChan EXCEPT ![r] = Tail(@)]
    /\ processedPayments' = record(processedPayments, request[r].cid)
    /\ IF HasGate(variant)
       THEN /\ circuitBreaker' = recordSuccessBody(circuitBreaker)
            /\ hist' = [hist EXCEPT !.consec = 0, !.afterSuccess = TRUE,
                                    !.resetFrom = circuitBreaker.state]
       ELSE UNCHANGED <<circuitBreaker, hist>>
    /\ pc' = [pc EXCEPT ![r] = "done"]
    /\ UNCHANGED <<proxyVars, restVars>>
    /\ UNCHANGED <<variant, now, mux, ret, seen, poolVars, healthVars,
                   request, strategy, crashed, clock>>

\* the most local strategies a variant starts
MaxFallbacks == 3

\* time passes between the steps of the service that reads the clock: the
\* health check of the api gateway; the other handlers never look at it
ClockTick ==
    /\ variant = "apiGateway"
    /\ Tick

Next ==
    \/ ClockTick
    \/ \E r \in Handlers :
         \/ RequestArrives(r)
         \/ RealBegin(r)
         \/ RealReturn(r)
         \/ RealSend(r)
         \/ \E i \in 1..MaxFallbacks : Fallback(r, i)
         \/ Commit(r)

Spec == Init /\ [][Next]_vars

\* the Go scheduler runs every goroutine that can run: a handler that can
\* receive receives, a strategy that can move moves
Fairness ==
    \A r \in Handlers :
        /\ WF_vars(Commit(r))
        /\ WF_vars(RealBegin(r))
        /\ WF_vars(RealReturn(r))
        /\ WF_vars(RealSend(r))
        /\ \A i \in 1..MaxFallbacks : WF_vars(Fallback(r, i))

SpecFair == Init /\ [][Next]_vars /\ Fairness

(***************************************************************************)
(* One dispatch against a clock.  clock counts the milliseconds since the  *)
(* go statements.  A goroutine that can run runs before the clock moves;   *)
(* the clock moves to the next instant at which a sleep ends or a timeout  *)
(* expires.  A downstream call may return at any of these instants up to   *)
(* its timeout.  The handler receives as soon as a value is there, so no   *)
(* send finds the channel full and RealSend has nothing to do here.        *)
(***************************************************************************)
TimedVariants == {"orchestrator", "gateway", "gatewayBruto", "apiGateway"}

InitTimed == Started(TimedVariants)

TimedArrives(r) ==
    /\ \A q \in Handlers : pc[q] = "idle"
    /\ RequestArrives(r)

TimedRealBegin(r) ==
    /\ clock <= HealthBudget(variant)
    /\ RealBegin(r)

TimedRealReturn(r) ==
    /\ clock <= strategy[r].startedAt + CallTimeout(variant)
    /\ RealReturn(r)

TimedFallback(r, i) ==
    /\ i <= Len(Fallbacks(variant))
    /\ clock >= fallbackDelay(variant, i)
    /\ Fallback(r, i)

\* some goroutine can run at this instant
Runnable(r) ==
    \/ pc[r] = "wait" /\ resultChan[r] # <<>>
    \/ strategy[r].real = "sending" /\ Room(r)
    \/ strategy[r].real = "launched" /\ clock >= HealthBudget(variant)
    \/ /\ strategy[r].real = "calling"
       /\ clock >= strategy[r].startedAt + CallTimeout(variant)
    \/ \E i \in DOMAIN strategy[r].fb :
         /\ strategy[r].fb[i] = "sleeping"
         /\ clock >= fallbackDelay(variant, i)
         /\ Room(r)

\* the instants at which a sleep of r ends or a timeout of r expires
Deadlines(r) ==
    {fallbackDelay(variant, i) :
        i \in {j \in DOMAIN strategy[r].fb : strategy[r].fb[j] = "sleeping"}}
    \cup (IF strategy[r].real = "launched" THEN {HealthBudget(variant)} ELSE {})
    \cup (IF strategy[r].real = "calling"
          THEN {strategy[r].startedAt + CallTimeout(variant)} ELSE {})

TimedTick ==
    /\ ~crashed
    /\ \A r \in Handlers : ~Runnable(r)
    /\ LET later == {d \in UNION {Deadlines(r) : r \in Handlers} : d > clock} IN
       /\ later # {}
       /\ clock' = CHOOSE d \in later : \A e \in later : d <= e
    /\ UNCHANGED <<proxyVars, restVars>>
    /\ UNCHANGED <<common, cbVars, poolVars, healthVars, request, resultChan,
                   strategy, response, processedPayments, crashed>>

NextTimed ==
    \/ TimedTick
    \/ \E r \in Handlers :
         \/ TimedArrives(r)
         \/ TimedRealBegin(r)
         \/ TimedRealReturn(r)
         \/ \E i \in 1..MaxFallbacks : TimedFallback(r, i)
         \/ Commit(r)

SpecTimed == InitTimed /\ [][NextTimed]_vars

(***************************************************************************)
(* The gRPC gateway of part_003:1-430 serving one request after another,    *)
(* each with a correlationId of its own, against the clock of SpecTimed.   *)
(* It is the service whose real call records its failures on the breaker.  *)
(* Serve takes the next request once the strategies of the last one have    *)
(* ended.                                                                   *)
(***************************************************************************)
\* the correlation ids of the requests served in a row
BrutoKeys == {"a", "b", "c", "d", "e"}

BrutoBodies == [kind : {"ok"}, cid : BrutoKeys]

InitBruto == Started({"gatewayBruto"})

BrutoArrives(r) ==
    /\ \A q \in Handlers : pc[q] = "idle"
    /\ Arrival(r, BrutoBodies)

\* the handler has returned and its strategy goroutines have ended: the
\* next request can be taken
Serve(r) ==
    /\ ~crashed
    /\ pc[r] = "done"
    /\ strategy[r].real \in {"none", "done"}
    /\ \A i \in DOMAIN strategy[r].fb : strategy[r].fb[i] = "sent"
    /\ circuitBreaker.failures < Threshold(variant) + ExtraFailures
    /\ pc' = [pc EXCEPT ![r] = "idle"]
    /\ request' = [request EXCEPT ![r] = NoRequest]
    /\ strategy' = [strategy EXCEPT ![r] = NotLaunched]
    /\ resultChan' = [resultChan EXCEPT ![r] = <<>>]
    /\ response' = [response EXCEPT ![r] = NoResponse]
    /\ clock' = 0
    /\ UNCHANGED <<variant, now, cbVars, poolVars, healthVars,
                   processedPayments, crashed, proxyVars, restVars>>

NextBruto ==
    \/ TimedTick
    \/ \E r \in Handlers :
         \/ BrutoArrives(r)
         \/ TimedRealBegin(r)
         \/ TimedRealReturn(r)
         \/ \E i \in 1..MaxFallbacks : TimedFallback(r, i)
         \/ Commit(r)
         \/ Serve(r)

SpecBruto == InitBruto /\ [][NextBruto]_vars

(***************************************************************************)
(* The API gateway of part_003:431-1020 in front of a payment processor     *)
(* whose every answer to POST /payments is a failure, serving one request   *)
(* after another, each with a correlationId of its own.                     *)
(***************************************************************************)
InitDown == Started({"apiGateway"})

\* client.Do fails, times out or comes back with a status outside 2xx
DownReturn(r) ==
    /\ clock <= strategy[r].startedAt + CallTimeout(variant)
    /\ CallReturns(r, CallOutcomes(variant, strategy[r].conn) \ {"ok"})

NextDown ==
    \/ TimedTick
    \/ ClockTick
    \/ \E r \in Handlers :
         \/ BrutoArrives(r)
         \/ TimedRealBegin(r)
         \/ DownReturn(r)
         \/ \E i \in 1..MaxFallbacks : TimedFallback(r, i)
         \/ Commit(r)
         \/ Serve(r)

SpecDown == InitDown /\ [][NextDown]_vars

(***************************************************************************)
(* CachingKeyResolver.ResolverFunc (src/unnamed/part_001).  keySource is   *)
(* called with the write lock held and takes time; the key it returns is   *)
(* written as the number of the call that fetched it.  fetched and         *)
(* resolved are history only.                                              *)
(***************************************************************************)
\* the key ids asked for
Kids == {"kid1", "kid2"}

\* r.cacheTTL, in ticks of the model clock
CacheTTL == 2

\* a second check that never finds the entry fresh
recheckNever(valid) == FALSE

\* the check repeated under the write lock (part_001:46-50)
recheck(valid) == valid

\* found && ttlFound && time.Now().Before(ttl)
fresh(e) == e.found /\ e.ttlFound /\ now < e.ttl

\* key, found := r.cache[kid]; ttl, ttlFound := r.ttlManager[kid]
lookup(kr, kid) ==
    [kid |-> kid,
     found |-> kid \in DOMAIN kr.cache,
     key |-> IF kid \in DOMAIN kr.cache THEN kr.cache[kid] ELSE 0,
     ttlFound |-> kid \in DOMAIN kr.ttlManager,
     ttl |-> IF kid \in DOMAIN kr.ttlManager THEN kr.ttlManager[kid]
             ELSE ZeroTime]

\* m[k] = v of a Go map
put(map, k, v) == [x \in DOMAIN map \cup {k} |-> IF x = k THEN v ELSE map[x]]

\* a resolver that stores what the key source gave back, error or not
storedAlways(kr, kid, newKey, err) ==
    [kr EXCEPT !.cache = put(@, kid, IF err THEN 0 ELSE newKey),
               !.ttlManager = put(@, kid, now + CacheTTL)]

\* if err != nil { return nil, ... }; r.cache[kid] = newKey;
\* r.ttlManager[kid] = time.Now().Add(r.cacheTTL)
stored(kr, kid, newKey, err) ==
    IF err THEN kr
    ELSE [kr EXCEPT !.cache = put(@, kid, newKey),
                    !.ttlManager = put(@, kid, now + CacheTTL)]

InitResolver ==
    /\ variant = "resolver"
    /\ now = 0
    /\ pc = [t \in Threads |-> "idle"]
    /\ StartBreaker
    /\ StartPool
    /\ StartHealth
    /\ StartDispatch
    /\ StartProxy
    /\ StartRest

\* r.mu.RLock(); read the two maps; r.mu.RUnlock()
ResolveRead(t) ==
    /\ pc[t] = "idle"
    /\ Len(resolved) + Cardinality({u \in Threads : pc[u] # "idle"})
          < MaxResolves
    /\ keyResolver.mu = NoHolder
    /\ \E kid \in Kids :
         resolving' = [resolving EXCEPT ![t] = lookup(keyResolver, kid)]
    /\ pc' = [pc EXCEPT ![t] = "rv_check"]
    /\ UNCHANGED <<variant, now, keyResolver, fetched, resolved>>
    /\ UNCHANGED <<cbVars, poolVars, healthVars, dispVars, proxyVars,
                   summaryVars, paySumVars>>

\* the first check, outside the lock: return the key or go on to Lock
ResolveCheck(t) ==
    /\ pc[t] = "rv_check"
    /\ IF fresh(resolving[t])
       THEN /\ resolved' = Append(resolved,
                   [kid |-> resolving[t].kid, at |-> now, err |-> FALSE,
                    key |-> resolving[t].key, cached |-> TRUE])
            /\ resolving' = [resolving EXCEPT ![t] = NoCall]
            /\ pc' = [pc EXCEPT ![t] = "idle"]
       ELSE /\ pc' = [pc EXCEPT ![t] = "rv_lock"]
            /\ UNCHANGED <<resolved, resolving>>
    /\ UNCHANGED <<variant, now, keyResolver, fetched>>
    /\ UNCHANGED <<cbVars, poolVars, healthVars, dispVars, proxyVars,
                   summaryVars, paySumVars>>

\* r.mu.Lock(); the check again; return the key (deferred Unlock) or call
\* r.keySource(kid) with the lock held
ResolveLock(t) ==
    /\ pc[t] = "rv_lock"
    /\ keyResolver.mu = NoHolder
    /\ LET e == lookup(keyResolver, resolving[t].kid) IN
       IF recheck(fresh(e))
       THEN /\ resolved' = Append(resolved,
                   [kid |-> e.kid, at |-> now, err |-> FALSE,
                    key |-> e.key, cached |-> TRUE])
            /\ resolving' = [resolving EXCEPT ![t] = NoCall]
            /\ pc' = [pc EXCEPT ![t] = "idle"]
            /\ UNCHANGED <<keyResolver, fetched>>
       ELSE /\ keyResolver' = [keyResolver EXCEPT !.mu = t]
            /\ fetched' = Append(fetched,
                   [kid |-> e.kid, at |-> now, ok |-> "pending",
                    ttl |-> ZeroTime])
            /\ resolving' = [resolving EXCEPT ![t] = e]
            /\ pc' = [pc EXCEPT ![t] = "rv_fetch"]
            /\ UNCHANGED resolved
    /\ UNCHANGED <<variant, now>>
    /\ UNCHANGED <<cbVars, poolVars, healthVars, dispVars, proxyVars,
                   summaryVars, paySumVars>>

\* the fetch that goroutine t has started
FetchOf(t) ==
    CHOOSE i \in DOMAIN fetched :
        fetched[i].ok = "pending" /\ fetched[i].kid = resolving[t].kid

\* r.keySource(kid) returns: store the key and its expiry, or return the
\* error; the deferred r.mu.Unlock()
ResolveFetched(t) ==
    /\ pc[t] = "rv_fetch"
    /\ \E err \in BOOLEAN :
         LET i == FetchOf(t)
             kr == stored(keyResolver, resolving[t].kid, i, err) IN
         /\ keyResolver' = [kr EXCEPT !.mu = NoHolder]
         /\ fetched' = [fetched EXCEPT
                ![i].ok = IF err THEN "error" ELSE "ok",
                ![i].ttl = IF err THEN ZeroTime ELSE now + CacheTTL]
         /\ resolved' = Append(resolved,
                [kid |-> resolving[t].kid, at |-> now, err |-> err,
                 key |-> IF err THEN 0 ELSE i, cached |-> FALSE])
    /\ resolving' = [resolving EXCEPT ![t] = NoCall]
    /\ pc' = [pc EXCEPT ![t] = "idle"]
    /\ UNCHANGED <<variant, now>>
    /\ UNCHANGED <<cbVars, poolVars, healthVars, dispVars, proxyVars,
                   summaryVars, paySumVars>>

\* the clock advances one tick
ResolverTick ==
    /\ now < ResolverMaxTime
    /\ now' = now + 1
    /\ UNCHANGED <<variant, pc, resolverVars>>
    /\ UNCHANGED <<cbVars, poolVars, healthVars, dispVars, proxyVars,
                   summaryVars, paySumVars>>

NextResolver ==
    \/ ResolverTick
    \/ \E t \in Threads :
         \/ ResolveRead(t)
         \/ ResolveCheck(t)
         \/ ResolveLock(t)
         \/ ResolveFetched(t)

SpecResolver == InitResolver /\ [][NextResolver]_vars

\* the successful fetches for kid before call number n of fetched
Fetches(kid, n) ==
    {i \in 1..(n - 1) : fetched[i].kid = kid /\ fetched[i].ok = "ok"}

\* C38: for any number of concurrent ResolverFunc calls for one kid the key
\* source is invoked at most once per TTL window: after a successful fetch
\* the source is not called for that kid before the entry has expired, every
\* key returned meanwhile is the fetched one, and no call returns a key whose
\* expiry has been reached.
C38_OneFetchPerWindow ==
    /\ \A j \in DOMAIN fetched :
          \A i \in Fetches(fetched[j].kid, j) :
              fetched[j].at >= fetched[i].ttl
    /\ \A n \in DOMAIN resolved :
          ~resolved[n].err =>
              LET f == fetched[resolved[n].key] IN
              /\ f.kid = resolved[n].kid
              /\ f.ok = "ok"
              /\ resolved[n].at < f.ttl
              /\ \A i \in DOMAIN fetched :
                    (fetched[i].kid = f.kid /\ fetched[i].ok = "ok"
                     /\ i > resolved[n].key)
                        => fetched[i].ttl - CacheTTL >= resolved[n].at

\* two goroutines asked for one key that was not in the cache at the same
\* instant: one fetched it, the other was served from the cache; after the
\* expiry the key was fetched a second time
C38_Witness ==
    \E a, b, c \in DOMAIN resolved :
        /\ a < b /\ b < c
        /\ resolved[a].kid = resolved[b].kid
        /\ resolved[a].kid = resolved[c].kid
        /\ resolved[a].at = resolved[b].at
        /\ ~resolved[a].err /\ ~resolved[a].cached
        /\ ~resolved[b].err /\ resolved[b].cached
        /\ resolved[b].key = resolved[a].key
        /\ ~resolved[c].err /\ ~resolved[c].cached
        /\ resolved[c].key # resolved[a].key
        /\ \E t \in Threads : pc[t] = "idle"

\* the entry of kid in the two maps
Entry(kr, kid) == <<lookup(kr, kid).found, lookup(kr, kid).key,
                    lookup(kr, kid).ttlFound, lookup(kr, kid).ttl>>

\* C39: when the key source returns an error ResolverFunc returns an error
\* and leaves the cache and the TTL table as they were: no entry is
\* created, an expired entry keeps its key and its expiry, and the next
\* call for that kid calls the key source again.
C39_ErrorLeavesCache ==
    /\ [][\A t \in Threads :
            (pc[t] = "rv_fetch" /\ pc'[t] = "idle"
             /\ fetched'[FetchOf(t)].ok = "error")
            => /\ keyResolver'.cache = keyResolver.cache
               /\ keyResolver'.ttlManager = keyResolver.ttlManager
               /\ resolved'[Len(resolved')].err
               /\ resolved'[Len(resolved')].kid = resolving[t].kid]_vars
    /\ [][\A t \in Threads :
            (/\ pc[t] = "rv_lock" /\ pc'[t] # "rv_lock"
             /\ \E i \in DOMAIN fetched :
                   /\ fetched[i].kid = resolving[t].kid
                   /\ fetched[i].ok = "error"
                   /\ \A j \in DOMAIN fetched :
                         (j > i /\ fetched[j].kid = fetched[i].kid)
                             => fetched[j].ok = "error")
            => /\ Len(fetched') = Len(fetched) + 1
               /\ fetched'[Len(fetched')].kid = resolving[t].kid
               /\ pc'[t] = "rv_fetch"]_vars
    /\ [](\A kid \in Kids :
            /\ (kid \in DOMAIN keyResolver.cache)
                  = (kid \in DOMAIN keyResolver.ttlManager)
            /\ kid \in DOMAIN keyResolver.cache =>
                  /\ keyResolver.cache[kid] \in DOMAIN fetched
                  /\ fetched[keyResolver.cache[kid]].ok = "ok"
                  /\ fetched[keyResolver.cache[kid]].ttl
                        = keyResolver.ttlManager[kid])

\* a key was fetched, expired, the fetch after the expiry failed, and the
\* call after that went to the key source again; the expired entry is
\* still the one of the first fetch
C39_Witness ==
    \E kid \in Kids :
        /\ Len(fetched) >= 3
        /\ \A i \in 1..3 : fetched[i].kid = kid
        /\ fetched[1].ok = "ok"
        /\ fetched[2].ok = "error"
        /\ fetched[3].ok = "error"
        /\ keyResolver.cache[kid] = 1
        /\ keyResolver.ttlManager[kid] = fetched[1].ttl
        /\ now >= fetched[1].ttl
        /\ \E n \in DOMAIN resolved : resolved[n].err /\ resolved[n].kid = kid

(***************************************************************************)
(* The summary service (src/cmd/summary-service/main.go:1-175): the        *)
(* totals of BRUTOSummary, the BRUTOCache in front of them and the two     *)
(* handlers.  One tick of now is one second.  served is history only.      *)
(***************************************************************************)
\* the values of the query parameters from and to
Ranges == {"", "a"}

\* fmt.Sprintf("summary_%s_%s", from, to)
cacheKey(from, to) == "summary_" \o from \o "_" \o to

\* the time the comments of the handlers give a cached summary
CacheSeconds == 1

InitSummary ==
    /\ variant = "summary"
    /\ now = 0
    /\ pc = [t \in Threads |-> "idle"]
    /\ StartBreaker
    /\ StartPool
    /\ StartHealth
    /\ StartDispatch
    /\ StartProxy
    /\ StartRest

\* s.Default.TotalRequests += requests; s.Default.TotalAmount += amount
UpdateDefault(requests, amount) ==
    /\ brutoSummary.default.totalRequests
         + brutoSummary.fallback.totalRequests < MaxUpdates
    /\ brutoSummary' = [brutoSummary EXCEPT
           !.default.totalRequests = @ + requests,
           !.default.totalAmount = @ + amount]
    /\ UNCHANGED <<variant, now, pc, summaryCache, summarizing, served>>
    /\ UNCHANGED <<cbVars, poolVars, healthVars, dispVars, proxyVars,
                   resolverVars, paySumVars>>

\* s.Fallback.TotalRequests += requests; s.Fallback.TotalAmount += amount
UpdateFallback(requests, amount) ==
    /\ brutoSummary.default.totalRequests
         + brutoSummary.fallback.totalRequests < MaxUpdates
    /\ brutoSummary' = [brutoSummary EXCEPT
           !.fallback.totalRequests = @ + requests,
           !.fallback.totalAmount = @ + amount]
    /\ UNCHANGED <<variant, now, pc, summaryCache, summarizing, served>>
    /\ UNCHANGED <<cbVars, poolVars, healthVars, dispVars, proxyVars,
                   resolverVars, paySumVars>>

\* brutoCache.Get(key): a hit is encoded and the handler returns, a miss
\* goes on to GetSummary
SummaryGet(t, key) ==
    /\ pc[t] = "idle"
    /\ Len(served) + Cardinality({u \in Threads : pc[u] # "idle"})
          < MaxSummaries
    /\ IF key \in DOMAIN summaryCache
       THEN /\ served' = Append(served,
                   [at |-> now, key |-> key, cached |-> TRUE,
                    summary |-> summaryCache[key],
                    current |-> brutoSummary])
            /\ UNCHANGED <<pc, summarizing>>
       ELSE /\ pc' = [pc EXCEPT ![t] = "sm_read"]
            /\ summarizing' = [summarizing EXCEPT ![t].key = key]
            /\ UNCHANGED served
    /\ UNCHANGED <<variant, now, brutoSummary, summaryCache>>
    /\ UNCHANGED <<cbVars, poolVars, healthVars, dispVars, proxyVars,
                   resolverVars, paySumVars>>

\* summary := brutoSummary.GetSummary()
SummaryRead(t) ==
    /\ pc[t] = "sm_read"
    /\ summarizing' = [summarizing EXCEPT ![t].summary = brutoSummary]
    /\ pc' = [pc EXCEPT ![t] = "sm_store"]
    /\ UNCHANGED <<variant, now, brutoSummary, summaryCache, served>>
    /\ UNCHANGED <<cbVars, poolVars, healthVars, dispVars, proxyVars,
                   resolverVars, paySumVars>>

\* brutoCache.Set(key, summary) and the answer
SummaryStore(t) ==
    /\ pc[t] = "sm_store"
    /\ summaryCache' = put(summaryCache, summarizing[t].key,
                           summarizing[t].summary)
    /\ served' = Append(served,
           [at |-> now, key |-> summarizing[t].key, cached |-> FALSE,
            summary |-> summarizing[t].summary, current |-> brutoSummary])
    /\ summarizing' = [summarizing EXCEPT ![t] = NoLookup]
    /\ pc' = [pc EXCEPT ![t] = "idle"]
    /\ UNCHANGED <<variant, now, brutoSummary>>
    /\ UNCHANGED <<cbVars, poolVars, healthVars, dispVars, proxyVars,
                   resolverVars, paySumVars>>

\* one second passes
SummaryTick ==
    /\ now < SummaryMaxTime
    /\ now' = now + 1
    /\ UNCHANGED <<variant, pc, summaryVars>>
    /\ UNCHANGED <<cbVars, poolVars, healthVars, dispVars, proxyVars,
                   resolverVars, paySumVars>>

\* GET /summary
handleSummary(t) == SummaryGet(t, "summary")

\* GET /payments-summary?from=..&to=..
handlePaymentsSummary(t) ==
    \E f \in Ranges : SummaryGet(t, cacheKey(f, f))

NextSummary ==
    \/ SummaryTick
    \/ UpdateDefault(1, 10)
    \/ UpdateFallback(1, 10)
    \/ \E t \in Threads :
         \/ handleSummary(t)
         \/ handlePaymentsSummary(t)
         \/ SummaryRead(t)
         \/ SummaryStore(t)

SpecSummary == InitSummary /\ [][NextSummary]_vars

\* the answers before answer n that stored their summary under the key of n
StoredBefore(n) ==
    {i \in 1..(n - 1) : served[i].key = served[n].key /\ ~served[i].cached}

\* C31: a summary stored in the cache of the summary service is served for
\* at most one second: an answer taken from the cache is given at most one
\* second after the summary was stored, so an answer given later than that
\* shows the totals as UpdateDefault and UpdateFallback have left them.
C31_CachedAtMostOneSecond ==
    \A n \in DOMAIN served :
        served[n].cached =>
            \E i \in StoredBefore(n) :
                /\ \A j \in StoredBefore(n) : j <= i
                /\ \/ served[n].at - served[i].at <= CacheSeconds
                   \/ served[n].summary = served[n].current

\* a summary stored at second 0 was served from the cache two seconds
\* later, after the totals had changed
C31_StaleServed ==
    \E n \in DOMAIN served :
        /\ served[n].cached
        /\ served[n].at >= 2
        /\ served[n].summary # served[n].current
        /\ \A i \in StoredBefore(n) : served[i].at = 0

(***************************************************************************)
(* GET /payments-summary of the gateways (main.go:676-705, part_003:321-352 *)
(* and 988-1013): one goroutine asks the summary service and sends only an *)
(* answer with default.totalRequests > 0, one or two goroutines send the   *)
(* all-zero summary, the handler answers with the first value received.    *)
(***************************************************************************)
\* the variants that register the route
SummaryVariants == {"gateway", "gatewayBruto", "apiGateway"}

\* make(chan HTTPSummaryResponse, n)
SummaryChanCap(v) == IF v = "gatewayBruto" THEN 3 ELSE 2

\* the goroutines that send the all-zero summary
SummaryFallbacks(v) == IF v = "gatewayBruto" THEN 2 ELSE 1

\* what the summary service may hold when it is asked
ServiceSummaries ==
    {ZeroSummary,
     [default |-> [totalRequests |-> 2, totalAmount |-> 20],
      fallback |-> [totalRequests |-> 1, totalAmount |-> 10]],
     [default |-> [totalRequests |-> 0, totalAmount |-> 0],
      fallback |-> [totalRequests |-> 1, totalAmount |-> 10]]}

\* how client.GetSummary / client.Do can end on the connection conn
SummaryOutcomes(v, conn) ==
    LET answers == {[kind |-> "ok", body |-> b] : b \in ServiceSummaries}
        fails(kinds) == {[kind |-> k, body |-> ZeroSummary] : k \in kinds}
    IN
    IF ~UsesGrpc(v)
    THEN answers \cup fails({"error", "timeout", "non200", "undecodable"})
    ELSE IF conn = summaryServiceConn
    THEN answers \cup fails({"error", "timeout"})
    ELSE fails({"error"})

\* the value callSummaryServiceBRUTO returns
summaryResult(v, out) ==
    IF out.kind # "ok" THEN ZeroSummary
    ELSE IF UsesGrpc(v)
    THEN [default |-> [totalRequests |-> out.body.default.totalRequests,
                       totalAmount |-> out.body.default.totalAmount],
          fallback |-> [totalRequests |-> 0, totalAmount |-> 0]]
    ELSE out.body

\* a strategy that sends whatever the call returned
summaryDeliversAlways(summary) == TRUE

\* summary.Default.TotalRequests > 0
summaryDelivers(summary) == summary.default.totalRequests > 0

\* the send on resultChan does not block
SummaryRoom(r) == Len(summaryChan[r]) < SummaryChanCap(variant)

InitPaySum == Started(SummaryVariants)

\* the handler: make(chan ...), the go statements
PaymentsSummaryArrives(r) ==
    /\ pc[r] = "idle"
    /\ summaryChan' = [summaryChan EXCEPT ![r] = <<>>]
    /\ summaryStrategy' = [summaryStrategy EXCEPT ![r] =
           [real |-> "launched",
            outcome |-> [kind |-> "none", body |-> ZeroSummary],
            fb |-> [i \in 1..SummaryFallbacks(variant) |-> "launched"]]]
    /\ pc' = [pc EXCEPT ![r] = "ps_wait"]
    /\ UNCHANGED <<variant, now, summaryResponse>>
    /\ UNCHANGED <<cbVars, poolVars, healthVars, dispVars, proxyVars,
                   resolverVars, summaryVars>>

\* callSummaryServiceBRUTO up to the call: GetConnection, the nil check
callSummaryServiceBegin(r) ==
    /\ summaryStrategy[r].real = "launched"
    /\ LET g == getConnection(variant, brutoConnectionPool) IN
       /\ brutoConnectionPool' = g.pool
       /\ summaryStrategy' = [summaryStrategy EXCEPT
              ![r].real = IF g.conn = "nil" THEN "done" ELSE "calling",
              ![r].outcome = IF g.conn = "nil"
                             THEN [kind |-> "noConnection",
                                   body |-> ZeroSummary]
                             ELSE [kind |-> g.conn, body |-> ZeroSummary]]
    /\ UNCHANGED <<variant, now, pc, summaryChan, summaryResponse>>
    /\ UNCHANGED <<cbVars, handed, healthVars, dispVars, proxyVars,
                   resolverVars, summaryVars>>

\* the call returns or times out; the strategy goes on to send the summary
\* or ends
callSummaryServiceReturn(r) ==
    /\ summaryStrategy[r].real = "calling"
    /\ \E out \in SummaryOutcomes(variant, summaryStrategy[r].outcome.kind) :
         summaryStrategy' = [summaryStrategy EXCEPT
             ![r].real = IF summaryDelivers(summaryResult(variant, out))
                         THEN "sending" ELSE "done",
             ![r].outcome = out]
    /\ UNCHANGED <<variant, now, pc, summaryChan, summaryResponse>>
    /\ UNCHANGED <<cbVars, poolVars, healthVars, dispVars, proxyVars,
                   resolverVars, summaryVars>>

\* resultChan <- summary, once the channel has room
SummarySend(r) ==
    /\ summaryStrategy[r].real = "sending"
    /\ SummaryRoom(r)
    /\ summaryChan' = [summaryChan EXCEPT ![r] =
          Append(@, summaryResult(variant, summaryStrategy[r].outcome))]
    /\ summaryStrategy' = [summaryStrategy EXCEPT ![r].real = "done"]
    /\ UNCHANGED <<variant, now, pc, summaryResponse>>
    /\ UNCHANGED <<cbVars, poolVars, healthVars, dispVars, proxyVars,
                   resolverVars, summaryVars>>

\* the i-th fallback goroutine sends the all-zero summary
SummaryFallback(r, i) ==
    /\ i \in DOMAIN summaryStrategy[r].fb
    /\ summaryStrategy[r].fb[i] = "launched"
    /\ SummaryRoom(r)
    /\ summaryChan' = [summaryChan EXCEPT ![r] = Append(@, ZeroSummary)]
    /\ summaryStrategy' = [summaryStrategy EXCEPT ![r].fb[i] = "sent"]
    /\ UNCHANGED <<variant, now, pc, summaryResponse>>
    /\ UNCHANGED <<cbVars, poolVars, healthVars, dispVars, proxyVars,
                   resolverVars, summaryVars>>

\* result := <-resultChan; WriteHeader(200); Encode(result)
SummaryCommit(r) ==
    /\ pc[r] = "ps_wait"
    /\ summaryChan[r] # <<>>
    /\ summaryResponse' = [summaryResponse EXCEPT ![r] =
          [code |-> 200, summary |-> Head(summaryChan[r])]]
    /\ summaryChan' = [summaryChan EXCEPT ![r] = Tail(@)]
    /\ pc' = [pc EXCEPT ![r] = "ps_done"]
    /\ UNCHANGED <<variant, now, summaryStrategy>>
    /\ UNCHANGED <<cbVars, poolVars, healthVars, dispVars, proxyVars,
                   resolverVars, summaryVars>>

NextPaySum ==
    \E r \in Handlers :
        \/ PaymentsSummaryArrives(r)
        \/ callSummaryServiceBegin(r)
        \/ callSummaryServiceReturn(r)
        \/ SummarySend(r)
        \/ \E i \in 1..MaxSummaryFallbacks : SummaryFallback(r, i)
        \/ SummaryCommit(r)

SpecPaySum == InitPaySum /\ [][NextPaySum]_vars

\* the Go scheduler runs every goroutine that can run, and the call to the
\* summary service returns at the latest when its context expires
FairnessPaySum ==
    \A r \in Handlers :
        /\ WF_vars(SummaryCommit(r))
        /\ WF_vars(callSummaryServiceBegin(r))
        /\ WF_vars(callSummaryServiceReturn(r))
        /\ WF_vars(SummarySend(r))
        /\ \A i \in 1..MaxSummaryFallbacks : WF_vars(SummaryFallback(r, i))

SpecPaySumFair == InitPaySum /\ [][NextPaySum]_vars /\ FairnessPaySum

\* C40: GET /payments-summary of the gateways always ends with exactly one
\* response, which is an answer of the summary service with
\* default.totalRequests > 0 or the all-zero summary; an answer that
\* failed, timed out or has totalRequests = 0 is never delivered, and no
\* strategy goroutine finds the result channel full.
C40_SummaryAlwaysAnswers ==
    /\ \A r \in Handlers : (pc[r] = "ps_wait") ~> (pc[r] = "ps_done")
    /\ [][\A r \in Handlers :
            /\ summaryResponse'[r] # summaryResponse[r]
                  => pc[r] = "ps_wait" /\ pc'[r] = "ps_done"
            /\ pc[r] = "ps_done" => pc'[r] = "ps_done"]_vars
    /\ [](\A r \in Handlers :
            /\ pc[r] = "ps_done" =>
                  /\ summaryResponse[r].code = 200
                  /\ \/ summaryResponse[r].summary = ZeroSummary
                     \/ /\ summaryStrategy[r].outcome.kind = "ok"
                        /\ summaryStrategy[r].real = "done"
                        /\ summaryResponse[r].summary
                             = summaryResult(variant, summaryStrategy[r].outcome)
                        /\ summaryResponse[r].summary.default.totalRequests > 0
            /\ pc[r] # "ps_done" => summaryResponse[r] = NoSummaryResponse
            /\ summaryStrategy[r].real = "sending" => SummaryRoom(r)
            /\ \A i \in DOMAIN summaryStrategy[r].fb :
                  summaryStrategy[r].fb[i] = "launched" => SummaryRoom(r))

\* one request was answered with the summary the service returned, the
\* other, whose call failed, with the all-zero summary; every strategy
\* goroutine has ended
C40_Witness ==
    \E r, q \in Handlers :
        /\ pc[r] = "ps_done" /\ pc[q] = "ps_done"
        /\ summaryResponse[r].summary.default.totalRequests > 0
        /\ summaryResponse[q].summary = ZeroSummary
        /\ summaryStrategy[q].outcome.kind \in {"error", "timeout"}
        /\ \A h \in Handlers :
              /\ summaryStrategy[h].real = "done"
              /\ \A i \in DOMAIN summaryStrategy[h].fb :
                    summaryStrategy[h].fb[i] = "sent"

(***************************************************************************)
(* The claims about the dispatch.                                          *)
(***************************************************************************)
\* the handler reads the body and does not answer 400
Accepted(v, req) ==
    /\ req.kind # "badJson"
    /\ Validates(v) => req.kind = "ok"

\* r1 was dispatched and had answered when r2, with the same correlationId,
\* arrived; both have answered
Repeats(r1, r2) ==
    /\ r1 # r2
    /\ pc[r1] = "done" /\ pc[r2] = "done"
    /\ r1 \in request[r2].after
    /\ request[r1].cid = request[r2].cid
    /\ strategy[r1].real # "none"
    /\ Accepted(variant, request[r2])

C2_EventuallyCommitted ==
    \A r \in Handlers : (pc[r] = "wait") ~> (pc[r] = "done")

\* the same with the runs in which a goroutine panics left aside
CommittedUnlessCrashed ==
    \A r \in Handlers : (pc[r] = "wait") ~> (pc[r] = "done" \/ crashed)

\* C3: only results with status "processed" are ever on a result channel,
\* and every answer of a dispatched request is 200 with status "processed".
C3_OnlyProcessedDelivered ==
    \A r \in Handlers :
        /\ \A k \in 1..Len(resultChan[r]) : resultChan[r][k].status = "processed"
        /\ (pc[r] = "done" /\ strategy[r].real # "none") =>
              (response[r].code = 200 /\ response[r].status = "processed")

\* the real call failed and the request was answered by a local strategy
C3_Witness ==
    \E r \in Handlers :
        /\ pc[r] = "done"
        /\ strategy[r].outcome \in {"non2xx", "error", "timeout"}
        /\ response[r].status = "processed"
        /\ response[r].message = Fallbacks(variant)[1].message

\* the delay of the local strategy that sleeps least, as the source states it
LocalFallbackDelay(v) ==
    CHOOSE d \in {Fallbacks(v)[i].delay : i \in 1..Len(Fallbacks(v))} :
        \A i \in 1..Len(Fallbacks(v)) : d <= Fallbacks(v)[i].delay

\* C4: no handler is still waiting for a result, and none commits one, later
\* than the delay of the local fallback after the launch, whatever the real
\* call does; every local strategy sleeps less than the real call's timeout.
C4_CommitWithinFallbackDelay ==
    /\ [](\A i \in 1..Len(Fallbacks(variant)) :
             fallbackDelay(variant, i) < CallTimeout(variant))
    /\ [](\A r \in Handlers :
             pc[r] = "wait" => clock <= LocalFallbackDelay(variant))
    /\ [][\A r \in Handlers :
             Commit(r) => clock <= LocalFallbackDelay(variant)]_vars

\* the request was answered by the local fallback and the real call, never
\* cancelled, is still in flight when its timeout expires
C4_Witness ==
    \E r \in Handlers :
        /\ pc[r] = "done"
        /\ response[r].message = Fallbacks(variant)[1].message
        /\ strategy[r].real = "calling"
        /\ clock = strategy[r].startedAt + CallTimeout(variant)
        /\ clock > LocalFallbackDelay(variant)


\* the calls so far that probed
Probes == {i \in 1..Len(checks) : checks[i].probed}

\* C26: a health probe that fails (request error, timeout, non-200 status
\* or undecodable body) or that reports failing = true stores unhealthy for
\* the target and returns false, and every health check for the target
\* within the rate-limit window that follows returns false without probing.
C26_FailedProbeUnhealthy ==
    /\ \A j \in Probes :
          checks[j].outcome # "healthy" => ~checks[j].answer
    /\ Probes # {} =>
          cachedHealth(brutoCache) = checks[Latest(Probes)].answer
    /\ \A j \in 1..Len(checks) :
          (/\ RecentProbes(j) # {}
           /\ checks[Latest(RecentProbes(j))].outcome # "healthy")
          => /\ ~checks[j].probed
             /\ ~checks[j].answer

\* a probe timed out; a later check inside the window was answered false
\* from the cache
C26_Witness ==
    \E i, j \in 1..Len(checks) :
        /\ i < j
        /\ checks[i].probed /\ checks[i].outcome = "timeout"
        /\ ~checks[i].answer
        /\ checks[j].at > checks[i].at
        /\ checks[j].at - checks[i].at < RateLimitWindow
        /\ ~checks[j].probed /\ ~checks[j].answer
        /\ ~cachedHealth(brutoCache)

\* the locks of the shared structures that goroutine t holds
Held(t) ==
    (IF healthCheckMutex = t THEN {"healthCheckMutex"} ELSE {})
        \cup (IF brutoConnectionPool.mu = t THEN {"pool"} ELSE {})
        \cup (IF t \in mux.readers \/ mux.writer = t THEN {"breaker"} ELSE {})

Arrives(r) == pc[r] = "idle" /\ pc'[r] # "idle"

\* handler r receives from resultChan and answers in this step
Commits(r) == pc[r] = "wait" /\ pc'[r] = "done"

\* the strategies of r that have not sent and may still do so
PendingSenders(r) ==
    Cardinality({i \in DOMAIN strategy[r].fb : strategy[r].fb[i] = "sleeping"})
        + (IF strategy[r].real \in {"launched", "calling", "sending"}
           THEN 1 ELSE 0)

\* C14: a POST /payments with malformed JSON, a missing or empty
\* correlationId or an amount <= 0 is answered 400 and no strategy is
\* launched for it, in every service.
C14_BadInputRejected ==
    \A r \in Handlers :
        request[r].kind \in {"badJson", "noCid", "null", "badAmount"} =>
            /\ pc[r] = "done"
            /\ response[r].code = 400
            /\ strategy[r] = NotLaunched

\* a request with an amount <= 0 was dispatched and answered 200 processed
C14_Dispatched ==
    \E r \in Handlers :
        /\ request[r].kind = "badAmount"
        /\ pc[r] = "done"
        /\ response[r].code = 200
        /\ request[r].cid \in processedPayments

\* C15: a request whose correlationId is in the deduplication store when it
\* arrives is answered in that step with the duplicate answer: no strategy
\* is launched, no channel is made, and the store and the circuit-breaker
\* record stay as they are.
C15_FastPathFrame ==
    [][\A r \in Handlers :
          (/\ Arrives(r)
           /\ Accepted(variant, request'[r])
           /\ request'[r].cid \in processedPayments)
          => /\ pc'[r] = "done"
             /\ response'[r] = duplicateResponse(variant, request'[r].cid)
             /\ strategy' = strategy
             /\ resultChan' = resultChan
             /\ processedPayments' = processedPayments
             /\ circuitBreaker' = circuitBreaker]_vars

\* a request got the duplicate answer without any strategy while the real
\* call of the request that recorded the key was still in flight
C15_Witness ==
    \E r1, r2 \in Handlers :
        /\ Repeats(r1, r2)
        /\ response[r2] = duplicateResponse(variant, request[r2].cid)
        /\ strategy[r2] = NotLaunched
        /\ strategy[r1].real = "calling"
        /\ request[r2].cid \in processedPayments

C18_OpenBreakerAbstains ==
    /\ [][\A r \in Handlers :
            (strategy[r].real = "launched" /\ strategy'[r].real = "calling")
            => canExecuteSwitch(variant, circuitBreaker) # "false"]_vars
    /\ [](\A r \in Handlers :
            (pc[r] = "done" /\ strategy[r].real # "none") =>
                (response[r].code = 200 /\ response[r].status = "processed"))
    /\ [](\A r \in Handlers : response[r].code # 503)

\* a downstream call is in flight that was started with the breaker Open
\* and its cooldown not elapsed
C18_CalledWhileOpen ==
    \E r \in Handlers :
        /\ strategy[r].real = "calling"
        /\ circuitBreaker.state = "OPEN"
        /\ circuitBreaker.failures = Threshold(variant)
        /\ canExecuteSwitch(variant, circuitBreaker) = "false"

\* C19: once the handler has received its one value, every strategy that
\* may still send finds room on the result channel, so no send blocks for
\* ever; this includes the orchestrator with 3 strategies and capacity 2.
C19_NoSenderBlocksForever ==
    \A r \in Handlers :
        (pc[r] = "done" /\ strategy[r].real # "none") =>
            PendingSenders(r) <= ChanCap(variant) - Len(resultChan[r])

\* the orchestrator answered and all of its three strategies have sent: the
\* two values the handler did not receive fill the channel
C19_Witness ==
    \E r \in Handlers :
        /\ variant = "orchestrator"
        /\ pc[r] = "done"
        /\ strategy[r].real = "done" /\ strategy[r].outcome = "ok"
        /\ \A i \in DOMAIN strategy[r].fb : strategy[r].fb[i] = "sent"
        /\ Len(resultChan[r]) = ChanCap(variant)
        /\ Len(strategy[r].fb) + 1 > ChanCap(variant)

\* C20: a request whose correlationId is not in the deduplication store is
\* dispatched with all its strategies whatever the other handlers are doing:
\* nothing marks a correlationId whose first request is still in flight, so
\* two requests with one correlationId can both be dispatched, both make
\* the downstream call and both record the key.
C20_NoInFlightMarker ==
    [][\A r \in Handlers :
          (/\ Arrives(r)
           /\ Accepted(variant, request'[r])
           /\ request'[r].cid \notin processedPayments)
          => /\ pc'[r] = "wait"
             /\ strategy'[r] = Launched(variant)]_vars

\* two requests with one correlationId, neither answered when the other
\* arrived, were both dispatched, both made the downstream call and both
\* were answered 200 after recording the key
C20_Witness ==
    \E r1, r2 \in Handlers :
        /\ r1 # r2
        /\ request[r1].kind = "ok"
        /\ request[r1].cid = request[r2].cid
        /\ r1 \notin request[r2].after /\ r2 \notin request[r1].after
        /\ pc[r1] = "done" /\ pc[r2] = "done"
        /\ strategy[r1].outcome \in {"ok", "non2xx", "error", "timeout"}
        /\ strategy[r2].outcome \in {"ok", "non2xx", "error", "timeout"}
        /\ response[r1].code = 200 /\ response[r2].code = 200
        /\ request[r1].cid \in processedPayments

\* the values the strategies of r have placed on resultChan[r]
Sent(r) ==
    Cardinality({i \in DOMAIN strategy[r].fb : strategy[r].fb[i] = "sent"})
        + (IF strategy[r].real = "done" /\ strategy[r].outcome = "ok"
           THEN 1 ELSE 0)

\* the response the handler writes for a value it received
Answer(result) ==
    [code |-> 200, id |-> result.id, status |-> result.status,
     message |-> result.message]

\* C21: the committed result of a dispatch is the first value placed on the
\* result channel, whichever strategy produced it: until the handler
\* receives, the channel holds every value sent so far in the order sent,
\* and the handler answers with the one at its head.  The strategies that
\* lost keep running, and a value they send after the answer changes
\* neither the response nor the deduplication store.
C21_FirstValueCommitted ==
    /\ [](\A r \in Handlers :
            pc[r] = "wait" => Len(resultChan[r]) = Sent(r))
    /\ [][\A r \in Handlers :
            /\ Commits(r) =>
                 /\ response'[r] = Answer(resultChan[r][1])
                 /\ processedPayments' =
                        processedPayments \cup {request[r].cid}
            /\ (pc[r] = "done" /\ Len(resultChan'[r]) > Len(resultChan[r])) =>
                 /\ response'[r] = response[r]
                 /\ processedPayments' = processedPayments
                 /\ pc'[r] = "done"]_vars

\* a fallback won the race; the real call was not cancelled, succeeded after
\* the answer, and its value sits on the channel that nobody reads any more
C21_Witness ==
    \E r \in Handlers :
        /\ pc[r] = "done"
        /\ response[r].message = Fallbacks(variant)[1].message
        /\ strategy[r].real = "done" /\ strategy[r].outcome = "ok"
        /\ Len(resultChan[r]) >= 1
        /\ resultChan[r][Len(resultChan[r])] =
              callResult(variant, "ok", request[r].cid)
        /\ response[r].message # realMessage(variant)
        /\ request[r].cid \in processedPayments

\* C22: every real downstream call that fails or times out is followed by
\* one recordFailure on the circuit breaker (failure count + 1) and delivers
\* nothing onto the result channel.
C22_FailureRecorded ==
    [][\A r \in Handlers :
          (/\ strategy[r].real = "calling"
           /\ strategy'[r].real = "done"
           /\ strategy'[r].outcome \in {"error", "timeout", "non2xx"})
          => /\ circuitBreaker'.failures = circuitBreaker.failures + 1
             /\ resultChan'[r] = resultChan[r]]_vars

\* the real strategy of r leaves its health check in this step
HealthChecked(r) == strategy[r].real = "launched" /\ strategy'[r].real # "launched"

\* C25: when the health check reports the target unhealthy, the real-call
\* strategy issues no downstream payment call and delivers nothing on the
\* channel, so the dispatch is answered with the value of a fallback.
C25_UnhealthyAbstains ==
    /\ [][\A r \in Handlers :
            (/\ HealthChecked(r)
             /\ Processor \in DOMAIN brutoCache'
             /\ ~cachedHealth(brutoCache'))
            => /\ strategy'[r].real = "done"
               /\ strategy'[r].conn = "nil"
               /\ resultChan' = resultChan
               /\ crashed' = crashed]_vars
    /\ [](\A r \in Handlers :
            (pc[r] = "done" /\ strategy[r].outcome = "unhealthy") =>
                \E i \in DOMAIN Fallbacks(variant) :
                    response[r] =
                        Answer(fallbackResult(variant, i, request[r].cid)))

\* the health check of the API gateway said unhealthy: no call was made and
\* the request was answered by the local fallback
C25_Witness ==
    \E r \in Handlers :
        /\ variant = "apiGateway"
        /\ pc[r] = "done"
        /\ strategy[r].real = "done" /\ strategy[r].outcome = "unhealthy"
        /\ strategy[r].conn = "nil"
        /\ ~cachedHealth(brutoCache)
        /\ response[r].message = "Local fallback"
        /\ resultChan[r] = <<>>

\* C27: the circuit breaker is updated only by the outcome of a real
\* downstream call: a dispatch that is committed while its real call has
\* failed or abstained calls no recordSuccess, so it leaves the breaker and
\* the count of failures since the last success as they were.
C27_SuccessOnlyAfterRealSuccess ==
    [][\A r \in Handlers :
          (/\ Commits(r)
           /\ strategy[r].real = "done"
           /\ strategy[r].outcome \in
                 {"error", "timeout", "non2xx", "unhealthy", "noConnection"})
          => /\ hist' = hist
             /\ circuitBreaker' = circuitBreaker]_vars

\* C30: the deduplication store only grows: a key enters it only in the
\* step in which a handler commits a processed result for a request with
\* that key, and no step of the service removes a key.
C30_StoreOnlyGrows ==
    [][/\ processedPayments \subseteq processedPayments'
       /\ \A k \in processedPayments' \ processedPayments :
             \E r \in Handlers :
                 /\ Commits(r)
                 /\ request[r].cid = k
                 /\ response'[r].code = 200
                 /\ response'[r].status = "processed"]_vars

\* two requests with different keys were committed and both keys are in
\* the store
C30_Witness ==
    /\ Cardinality(processedPayments) >= 2
    /\ \E r1, r2 \in Handlers :
          /\ r1 # r2
          /\ pc[r1] = "done" /\ pc[r2] = "done"
          /\ request[r1].cid # request[r2].cid
          /\ response[r1].code = 200 /\ response[r2].code = 200
          /\ {request[r1].cid, request[r2].cid} \subseteq processedPayments

\* C23: with a downstream that always errors every payment request is
\* still answered processed with the message of a fallback, and once 5
\* such requests in a row have been answered canExecute returns false.
C23_DownOpensBreaker ==
    /\ \A r \in Handlers :
          (pc[r] = "done" /\ strategy[r].real # "none") =>
              \E i \in DOMAIN Fallbacks(variant) :
                  response[r] =
                      Answer(fallbackResult(variant, i, request[r].cid))
    /\ Cardinality(processedPayments) >= 5 =>
          canExecuteSwitch(variant, circuitBreaker) = "false"

\* C24: the real-call strategy consults canExecute before calling
\* downstream: while the breaker is Open and its cooldown has not elapsed,
\* no dispatch issues a real downstream call.
C24_NoCallWhileOpen ==
    [][\A r \in Handlers :
          (strategy[r].real = "launched" /\ strategy'[r].real = "calling")
              => canExecuteSwitch(variant, circuitBreaker) # "false"]_vars

\* C35: a handle taken from the pool for a call to a downstream target is
\* a handle that was dialed for that target: every payment-orchestrator
\* call of the gateway is issued on the payment-orchestrator connection.
C35_HandleMatchesTarget ==
    \A r \in Handlers :
        (UsesGrpc(variant) /\ strategy[r].real = "calling") =>
            strategy[r].conn = paymentOrchestratorConn

ProxyHandlers == {"ReverseProxy", "LoadBalancer"}

\* the gateways that listen on :9999 and are modelled behind the proxy
ProxyBackendVariants == {"gateway", "apiGateway"}

\* var backends = []string{...}: each "<scheme>://<name>"
backends ==
    <<[scheme |-> "http", name |-> "api-gateway-1:9999"],
      [scheme |-> "http", name |-> "api-gateway-2:9999"]>>

\* the bodies the clients post
Posts ==
    [kind : {"ok"}, cid : Keys]
        \cup {[kind |-> "badAmount", cid |-> "a"], [kind |-> "badJson", cid |-> ""]}

\* the range of int32
MaxInt32 == 2147483647
MinInt32 == -2147483647 - 1

\* the counter of a proxy that has just started, and of one that has been
\* picking backends since it started and is two picks short of MaxInt32
StartCursors == {0, MaxInt32 - 1}

\* atomic.AddInt32(&currentBackend, 1): the new value, wrapping around
AddInt32(x) == IF x = MaxInt32 THEN MinInt32 ELSE x + 1

\* Go's a % n for n > 0: the remainder has the sign of a
GoRem(a, n) ==
    IF a >= 0 THEN a % n
    ELSE -((((-(a + 1)) % n) + 1) % n)

\* getNextBackend: the counter it leaves and the index it computes;
\* backends[index] panics when index < 0
getNextBackend(cur) ==
    LET next == AddInt32(cur) IN
    [next |-> next, index |-> GoRem(next, Len(backends))]

\* URL.Host after http.NewRequest(r.Method, backend + r.URL.Path, ...), and
\* after the Director copied backend.Host
parsedHost(b) == [prefix |-> "", name |-> b.name]

\* URL.Host after "req.URL.Host = backend"
rawHost(b) == [prefix |-> b.scheme, name |-> b.name]

\* the backend a dial of host reaches: 0 when nothing listens there
dial(host) ==
    IF host.prefix = "" /\ \E i \in DOMAIN backends :
                              backends[i].name = host.name /\ alive[i]
    THEN CHOOSE i \in DOMAIN backends : backends[i].name = host.name
    ELSE 0

\* the response carries a result produced by a strategy of this request
Fresh(resp) ==
    /\ resp.code = 200
    /\ resp.status = "processed"
    /\ resp.message # "Idempotent: already processed"

\* what POST /payments of a backend of variant v can answer to body when its
\* map holds keys; its breaker is closed
handlePaymentsAnswers(v, body, keys) ==
    LET early == earlyAnswer(v, "true", body, keys) IN
    IF early # NoResponse THEN {early}
    ELSE {[code |-> 200, id |-> body.cid, status |-> "processed", message |-> m] :
             m \in {realMessage(v)}
                   \cup {Fallbacks(v)[i].message : i \in DOMAIN Fallbacks(v)}}

\* client.Do(req) / Transport.RoundTrip: an error when nothing answers at
\* host, else the answer of the backend that does
roundTrip(v, host, body) ==
    LET i == dial(host) IN
    IF i = 0
    THEN {[ok |-> FALSE, backend |-> 0, answer |-> NoResponse]}
    ELSE {[ok |-> TRUE, backend |-> i, answer |-> a] :
             a \in handlePaymentsAnswers(v, body, instanceKeys[i])}

\* a proxy that also tries the next backend when the answer is an error status
retriesOnStatus(p, err, code) == p = "LoadBalancer" /\ (err \/ code >= 400)

\* whether the handler tries the next backend after the first attempt:
\* "if err != nil" of ServeHTTP; the ReverseProxy calls its ErrorHandler
retries(p, err, code) == p = "LoadBalancer" /\ err

\* http.Error(w, "Service Unavailable", 503) / the ErrorHandler
serviceUnavailable == httpError(503, "Service Unavailable")

\* the map of backend i after it answered a to body
recorded(keys, body, a) == IF Fresh(a) THEN record(keys, body.cid) ELSE keys

InitProxy ==
    /\ variant \in ProxyBackendVariants
    /\ now = 0
    /\ pc = [r \in Handlers |-> "idle"]
    /\ StartBreaker
    /\ StartPool
    /\ StartHealth
    /\ StartDispatch
    /\ proxy \in ProxyHandlers
    /\ currentBackend \in StartCursors
    /\ alive = <<TRUE, TRUE>>
    /\ client = [c \in Clients |-> NoClient]
    /\ instanceKeys = <<{}, {}>>
    /\ picks = <<>>
    /\ StartRest

\* a request reaches the proxy: the first getNextBackend, the request to it
ProxyArrives(c) ==
    /\ client[c].pc = "idle"
    /\ \E body \in Posts :
         LET g == getNextBackend(currentBackend) IN
         /\ currentBackend' = g.next
         /\ picks' = Append(picks, [old |-> currentBackend, next |-> g.next,
                                    index |-> g.index])
         /\ client' = [client EXCEPT ![c] =
               IF g.index < 0
               THEN \* panic: index out of range; net/http drops the connection
                    [@ EXCEPT !.pc = "done", !.body = body, !.by = "panic"]
               ELSE [@ EXCEPT !.pc = "forward", !.body = body,
                              !.host = parsedHost(backends[g.index + 1])]]
    /\ UNCHANGED restVars
    /\ UNCHANGED <<common, cbVars, poolVars, healthVars, dispVars, proxy, alive,
                   instanceKeys>>

\* the first attempt ends: the answer is copied to the client, or the
\* handler gives up, or it picks the next backend for a second attempt
Forward(c) ==
    /\ client[c].pc = "forward"
    /\ \E out \in roundTrip(variant, client[c].host, client[c].body) :
         LET tried == Append(client[c].attempts,
                             [host |-> client[c].host, ok |-> out.ok,
                              backend |-> out.backend, answer |-> out.answer])
             g == getNextBackend(currentBackend)
         IN
         /\ instanceKeys' =
               IF out.ok
               THEN [instanceKeys EXCEPT ![out.backend] =
                        recorded(@, client[c].body, out.answer)]
               ELSE instanceKeys
         /\ IF retries(proxy, ~out.ok, out.answer.code)
            THEN /\ currentBackend' = g.next
                 /\ picks' = Append(picks, [old |-> currentBackend,
                                            next |-> g.next, index |-> g.index])
                 /\ client' = [client EXCEPT ![c] =
                       IF g.index < 0
                       THEN [@ EXCEPT !.pc = "done", !.attempts = tried,
                                      !.by = "panic"]
                       ELSE [@ EXCEPT !.pc = "retry", !.attempts = tried,
                                      !.host = rawHost(backends[g.index + 1])]]
            ELSE /\ client' = [client EXCEPT ![c] =
                       [@ EXCEPT !.pc = "done", !.attempts = tried,
                                 !.response = IF out.ok THEN out.answer
                                              ELSE serviceUnavailable,
                                 !.by = IF out.ok THEN "backend" ELSE "proxy"]]
                 /\ UNCHANGED <<currentBackend, picks>>
    /\ UNCHANGED restVars
    /\ UNCHANGED <<common, cbVars, poolVars, healthVars, dispVars, proxy, alive>>

\* the second attempt of ServeHTTP ends
Retry(c) ==
    /\ client[c].pc = "retry"
    /\ \E out \in roundTrip(variant, client[c].host, client[c].body) :
         /\ instanceKeys' =
               IF out.ok
               THEN [instanceKeys EXCEPT ![out.backend] =
                        recorded(@, client[c].body, out.answer)]
               ELSE instanceKeys
         /\ client' = [client EXCEPT ![c] =
               [@ EXCEPT !.pc = "done",
                         !.attempts = Append(@, [host |-> client[c].host,
                                                 ok |-> out.ok,
                                                 backend |-> out.backend,
                                                 answer |-> out.answer]),
                         !.response = IF out.ok THEN out.answer
                                      ELSE serviceUnavailable,
                         !.by = IF out.ok THEN "backend" ELSE "proxy"]]
    /\ UNCHANGED restVars
    /\ UNCHANGED <<common, cbVars, poolVars, healthVars, dispVars, proxy,
                   currentBackend, alive, picks>>

\* a backend process stops; what it had in memory is gone
Kill(i) ==
    /\ alive[i]
    /\ alive' = [alive EXCEPT ![i] = FALSE]
    /\ instanceKeys' = [instanceKeys EXCEPT ![i] = {}]
    /\ UNCHANGED restVars
    /\ UNCHANGED <<common, cbVars, poolVars, healthVars, dispVars, proxy,
                   currentBackend, client, picks>>

NextProxy ==
    \/ \E c \in Clients : ProxyArrives(c) \/ Forward(c) \/ Retry(c)
    \/ \E i \in DOMAIN backends : Kill(i)

SpecProxy == InitProxy /\ [][NextProxy]_vars


(***************************************************************************)
(* The claims about the load balancer.                                     *)
(***************************************************************************)
\* the backend whose address host names, whatever the form of host
Named(host) == CHOOSE i \in DOMAIN backends : backends[i].name = host.name

\* the request of c has been answered or dropped
Finished(c) == client[c].pc = "done"

\* C11: when the first attempt fails at transport level the request is
\* retried exactly once against the next backend; if that backend is up its
\* response reaches the caller, and the proxy answers 503 only after two
\* failed attempts.
C11_RetryThenUnavailable ==
    \A c \in Clients :
        LET a == client[c].attempts IN
        Finished(c) /\ client[c].by # "panic" /\ a # <<>> /\ ~a[1].ok =>
            /\ Len(a) = 2
            /\ alive[Named(a[2].host)] => client[c].by = "backend"
            /\ client[c].by = "proxy" => ~a[2].ok

\* the first attempt of a request failed and the proxy answered 503 while
\* the other backend was up
C11_Scenario ==
    \E c \in Clients :
        /\ Finished(c)
        /\ client[c].attempts # <<>>
        /\ ~client[c].attempts[1].ok
        /\ client[c].response = serviceUnavailable
        /\ \E i \in DOMAIN backends : alive[i]

\* C12: an answer of the backend, error statuses included, is passed to the
\* caller as it is and no second backend is tried; a second attempt is
\* made only after a first attempt that failed to connect or complete.
C12_StatusIsNotRetried ==
    \A c \in Clients :
        LET a == client[c].attempts IN
        /\ Len(a) <= 2
        /\ Len(a) = 2 => ~a[1].ok
        /\ a # <<>> /\ a[1].ok =>
              /\ Finished(c)
              /\ client[c].by = "backend"
              /\ client[c].response = a[1].answer

\* a backend answered 400 or 409 and the caller got that answer after one
\* attempt, under either handler
C12_Witness ==
    \E c \in Clients :
        /\ Finished(c)
        /\ proxy = "LoadBalancer"
        /\ Len(client[c].attempts) = 1
        /\ client[c].attempts[1].ok
        /\ client[c].response.code \in {400, 409}

\* C13: the i-th pick goes to backends[i mod len(backends)], any
\* len(backends) consecutive picks use every backend once, and no two picks
\* observe the same value of the counter.
C13_StrictRotation ==
    /\ \A k \in DOMAIN picks :
          /\ picks[k].index \in 0..(Len(backends) - 1)
          /\ picks[k].old >= 0 => picks[k].index = picks[k].old % Len(backends)
    /\ \A k \in DOMAIN picks :
          k + Len(backends) - 1 <= Len(picks) =>
              {picks[j].index : j \in k..(k + Len(backends) - 1)}
                  = 0..(Len(backends) - 1)
    /\ \A j, k \in DOMAIN picks : j # k => picks[j].next # picks[k].next

\* the counter has wrapped around and a pick computed a negative index
C13_Overflow ==
    \E k \in DOMAIN picks : picks[k].next < 0 /\ picks[k].index < 0

\* C16: across the two gateway processes behind the proxy a correlationId
\* is answered as freshly processed at most once.
C16_FreshAtMostOnce ==
    \A c, d \in Clients :
        /\ c # d
        /\ Finished(c) /\ Finished(d)
        /\ client[c].body.cid = client[d].body.cid
        => ~(Fresh(client[c].response) /\ Fresh(client[d].response))

\* C29: the retry after a transport failure is sent to a backend other
\* than the one that just failed, also when other requests advance the
\* shared cursor between the first attempt and the retry.
C29_RetryElsewhere ==
    \A c \in Clients :
        LET a == client[c].attempts IN
        /\ (client[c].pc = "retry" /\ Len(a) = 1) =>
              Named(client[c].host) # Named(a[1].host)
        /\ Len(a) = 2 => Named(a[2].host) # Named(a[1].host)

\* C36: getNextBackend always yields an index inside [0, len(backends)):
\* the value used to index the backend list is never negative or out of
\* range, also after the signed 32-bit cursor has wrapped around.
C36_IndexInRange ==
    \A k \in DOMAIN picks :
        0 <= picks[k].index /\ picks[k].index < Len(backends)

=============================================================================
